---- MODULE Spec2Model ----
(***************************************************************************)
(* magql: the schema graph resolver (Schema._find_nodes, Schema.to_graphql *)
(* and the memoized Node._to_graphql) and the resolver pipeline            *)
(* (Field.resolve over _DataValidatorNode.validate and _validate_value).   *)
(*                                                                         *)
(* Strings are sequences of one-character strings, so that the marker      *)
(* stripping of type references is computed character by character.        *)
(* Objects live in `heap` (a sequence; an object's identity is its index), *)
(* compiled GraphQL-Core objects live in `gql`.                            *)
(***************************************************************************)
EXTENDS Integers, Sequences, FiniteSets, TLC

\* The number of user edits (add_type, a field attached, a type assigned).
MaxEdits == 2
\* The number of Schema.to_graphql / Schema._find_nodes calls.
MaxCalls == 2
\* Iterations allowed to one loop or recursion before it is reported as
\* not terminating.
MaxSteps == 80

VARIABLES
    heap,            \* every magql Node object, by identity
    type_map,        \* Schema.type_map, an insertion-ordered dict
    graphql_schema,  \* Schema._graphql_schema (0 is None)
    gql,             \* every GraphQL-Core object built so far
    last,            \* what the last call did and returned
    edits,           \* user edits so far
    calls,           \* calls so far
    validators,      \* node.validators of every validator node
    pre_resolve,     \* Field._pre_resolve of the resolved field
    resolve_fn,      \* Field._resolve of the resolved field
    trace,           \* the callables the last Field.resolve called, in order
    outcome,         \* how the last Field.resolve ended
    threads          \* the to_graphql calls in progress, one per thread

schemaVars == <<heap, type_map, graphql_schema, gql, last, threads>>
resolveVars == <<validators, pre_resolve, resolve_fn, trace, outcome>>

----------------------------------------------------------------------------
\* Strings

QueryName == <<"Q", "u", "e", "r", "y">>
MutationName == <<"M", "u", "t", "a", "t", "i", "o", "n">>
IntName == <<"I", "n", "t">>
UserName == <<"U", "s", "e", "r">>
UserInputName == <<"U", "s", "e", "r", "I", "n", "p", "u", "t">>
NodeName == <<"N", "o", "d", "e">>
PetName == <<"P", "e", "t">>
RankName == <<"R", "a", "n", "k">>

\* Code point of a character: Python compares str by code point.
Ord(c) ==
    CASE c = "!" -> 33
      [] c = "I" -> 73 [] c = "M" -> 77 [] c = "N" -> 78 [] c = "P" -> 80
      [] c = "Q" -> 81 [] c = "R" -> 82 [] c = "U" -> 85
      [] c = "[" -> 91 [] c = "]" -> 93
      [] c = "a" -> 97 [] c = "d" -> 100 [] c = "e" -> 101 [] c = "i" -> 105
      [] c = "k" -> 107 [] c = "n" -> 110 [] c = "o" -> 111 [] c = "p" -> 112
      [] c = "r" -> 114 [] c = "s" -> 115 [] c = "t" -> 116 [] c = "u" -> 117
      [] c = "y" -> 121

RECURSIVE LessStr(_, _)
\* a < b on Python str.
LessStr(a, b) ==
    IF b = <<>> THEN FALSE
    ELSE IF a = <<>> THEN TRUE
    ELSE IF Ord(Head(a)) # Ord(Head(b)) THEN Ord(Head(a)) < Ord(Head(b))
    ELSE LessStr(Tail(a), Tail(b))

RECURSIVE InsertSorted(_, _)
InsertSorted(sorted, x) ==
    IF sorted = <<>> THEN <<x>>
    ELSE IF LessStr(x, Head(sorted)) THEN <<x>> \o sorted
    ELSE <<Head(sorted)>> \o InsertSorted(Tail(sorted), x)

RECURSIVE Sorted(_)
\* sorted(names): a stable sort of a sequence of str.
Sorted(names) ==
    IF names = <<>> THEN <<>>
    ELSE InsertSorted(Sorted(SubSeq(names, 1, Len(names) - 1)), names[Len(names)])

InSeq(x, seq) == \E i \in 1..Len(seq) : seq[i] = x
Position(seq, x) == CHOOSE i \in 1..Len(seq) : seq[i] = x

----------------------------------------------------------------------------
\* References and nodes

\* A value of type `str | Node | None`: a string has o = 0, an object has
\* s = <<>>, None has both.
None == [s |-> <<>>, o |-> 0]
StrRef(s) == [s |-> s, o |-> 0]
ObjRef(n) == [s |-> <<>>, o |-> n]
IsStr(r) == r.s # <<>>
IsObj(r) == r.o # 0

ObjRefs(ids) == [i \in 1..Len(ids) |-> ObjRef(ids[i])]

\* A node object with the attributes of its class (the others stay empty).
\* An Argument or InputField keeps in `name` the key it has in the dict
\* (Field.args, InputObject.fields) that holds it.
\* graphql_node is Node._graphql_node (0 is None). Kept beside it, of this
\* node: n_start, the executions of _make_graphql_node begun; n_make, those
\* that returned an object; n_call, the _to_graphql calls that returned;
\* rets, the set of objects they returned.
NewNode(kind, name, type, fields, args, interfaces, types) ==
    [kind |-> kind, name |-> name, type |-> type, fields |-> fields,
     args |-> args, interfaces |-> interfaces, types |-> types,
     graphql_node |-> 0, n_start |-> 0, n_make |-> 0, n_call |-> 0, rets |-> {}]

NewWrapping(kind, type) == NewNode(kind, <<>>, type, <<>>, <<>>, <<>>, <<>>)

NamedKinds == {"Object", "Interface", "Union", "InputObject", "Scalar", "Enum"}
WrappingKinds == {"NonNull", "List"}
IsNamedType(nd) == nd.kind \in NamedKinds

----------------------------------------------------------------------------
\* type_map: a dict, modelled as a sequence of items in insertion order

TMKeys(tm) == [i \in 1..Len(tm) |-> tm[i].k]
TMValues(tm) == [i \in 1..Len(tm) |-> tm[i].v]
TMHas(tm, k) == \E i \in 1..Len(tm) : tm[i].k = k
\* dict.get(k): 0 (None) when the key is missing.
TMGet(tm, k) ==
    IF TMHas(tm, k) THEN tm[CHOOSE i \in 1..Len(tm) : tm[i].k = k].v ELSE 0
\* d[k] = v: an existing key keeps its place.
TMSet(tm, k, v) ==
    IF TMHas(tm, k)
    THEN [i \in 1..Len(tm) |-> IF tm[i].k = k THEN [k |-> k, v |-> v] ELSE tm[i]]
    ELSE Append(tm, [k |-> k, v |-> v])
RECURSIVE TMDel(_, _)
\* del d[k] (the key is present wherever the code deletes).
TMDel(tm, k) ==
    IF tm = <<>> THEN <<>>
    ELSE IF Head(tm).k = k THEN Tail(tm)
    ELSE <<Head(tm)>> \o TMDel(Tail(tm), k)

----------------------------------------------------------------------------
\* Marker stripping and _to_type

\* One iteration of the `while True` loop that strips markers: value[-1]
\* and value[0] raise IndexError on the empty string, value[:-1] drops the
\* last character, value[1:-1] drops the first and the last.
StripStep(s) ==
    IF s = <<>> THEN [s |-> s, mark |-> "IndexError"]
    ELSE IF s[Len(s)] = "!" THEN [s |-> SubSeq(s, 1, Len(s) - 1), mark |-> "!"]
    ELSE IF s[1] = "[" THEN [s |-> SubSeq(s, 2, Len(s) - 1), mark |-> "["]
    ELSE [s |-> s, mark |-> "break"]

RECURSIVE StripFrom(_, _)
RECURSIVE StripNext(_, _, _)
StripFrom(s, wrappers) == StripNext(s, wrappers, StripStep(s))
StripNext(s, wrappers, st) ==
    IF st.mark = "break" THEN [bare |-> s, wrappers |-> wrappers, raised |-> "none"]
    ELSE IF st.mark = "IndexError"
    THEN [bare |-> s, wrappers |-> wrappers, raised |-> "IndexError"]
    ELSE StripFrom(st.s, Append(wrappers, IF st.mark = "!" THEN "NonNull" ELSE "List"))

\* The whole loop: the bare name and the wrapper classes in the order they
\* were stripped (outermost first).
Strip(s) == StripFrom(s, <<>>)

RECURSIVE ApplyWrappersFirstOut(_, _, _)
\* ApplyWrappers with `wrappers.pop(0)`: the wrapper stripped first is
\* applied first.
ApplyWrappersFirstOut(h, out, wrappers) ==
    IF wrappers = <<>> THEN [heap |-> h, ref |-> out, raised |-> "none"]
    ELSE ApplyWrappersFirstOut(Append(h, NewWrapping(Head(wrappers), out)),
                               ObjRef(Len(h) + 1), Tail(wrappers))

RECURSIVE ApplyWrappers(_, _, _)
\* `while wrappers: w = wrappers.pop(); out = w(out)`: each wrapper is a new
\* object, appended to the heap.
ApplyWrappers(h, out, wrappers) ==
    IF wrappers = <<>> THEN [heap |-> h, ref |-> out, raised |-> "none"]
    ELSE ApplyWrappers(Append(h, NewWrapping(wrappers[Len(wrappers)], out)),
                       ObjRef(Len(h) + 1),
                       SubSeq(wrappers, 1, Len(wrappers) - 1))

\* `out = type_map.get(value); if out is None: out = value`.
Lookup(tm, bare, found) == IF found = 0 THEN StrRef(bare) ELSE ObjRef(found)

ToTypeStripped(h, value, tm, st) ==
    IF st.raised # "none" THEN [heap |-> h, ref |-> value, raised |-> st.raised]
    ELSE ApplyWrappers(h, Lookup(tm, st.bare, TMGet(tm, st.bare)), st.wrappers)

\* _to_type(value, type_map): the value it returns and the heap with the
\* wrappers it created.
ToType(h, value, tm) ==
    IF ~IsStr(value) THEN [heap |-> h, ref |-> value, raised |-> "none"]
    ELSE ToTypeStripped(h, value, tm, Strip(value.s))

RECURSIVE ListToTypesFrom(_, _, _, _)
RECURSIVE ListToTypesNext(_, _, _, _, _)
ListToTypesFrom(h, values, tm, i) ==
    IF i > Len(values) THEN [heap |-> h, values |-> values, raised |-> "none"]
    ELSE ListToTypesNext(h, values, tm, i, ToType(h, values[i], tm))
ListToTypesNext(h, values, tm, i, r) ==
    IF r.raised # "none" THEN [heap |-> h, values |-> values, raised |-> r.raised]
    ELSE ListToTypesFrom(r.heap, [values EXCEPT ![i] = r.ref], tm, i + 1)

\* _list_to_types(values, type_map): each item replaced in place.
ListToTypes(h, values, tm) == ListToTypesFrom(h, values, tm, 1)

----------------------------------------------------------------------------
\* Node._find_nodes and Node._apply_types of each class

FindNodesOf(h, n) ==
    CASE h[n].kind \in {"Object", "Interface"} -> ObjRefs(h[n].fields) \o h[n].interfaces
      [] h[n].kind = "Union" -> h[n].types
      [] h[n].kind = "Field" -> <<h[n].type>> \o ObjRefs(h[n].args)
      [] h[n].kind \in {"Argument", "InputField"} -> <<h[n].type>>
      [] h[n].kind = "InputObject" -> ObjRefs(h[n].fields)
      [] h[n].kind \in WrappingKinds -> <<h[n].type>>
      [] OTHER -> <<>>

SetInterfaces(n, r) == [heap |-> [r.heap EXCEPT ![n].interfaces = r.values], raised |-> r.raised]
SetTypes(n, r) == [heap |-> [r.heap EXCEPT ![n].types = r.values], raised |-> r.raised]
SetTypeOf(n, r) == [heap |-> [r.heap EXCEPT ![n].type = r.ref], raised |-> r.raised]

\* The heap after h[n]._apply_types(tm).
ApplyTypes(h, n, tm) ==
    CASE h[n].kind \in {"Object", "Interface"} ->
           SetInterfaces(n, ListToTypes(h, h[n].interfaces, tm))
      [] h[n].kind = "Union" -> SetTypes(n, ListToTypes(h, h[n].types, tm))
      [] h[n].kind \in {"Field", "Argument", "InputField"} \cup WrappingKinds ->
           SetTypeOf(n, ToType(h, h[n].type, tm))
      [] OTHER -> [heap |-> h, raised |-> "none"]

----------------------------------------------------------------------------
\* Schema._find_nodes

QueryId == 1
MutationId == 2

\* FindStripStep with the pair removed only when the string ends with "]".
FindStripStepMatched(node) ==
    IF node = <<>> THEN [s |-> node, mark |-> "IndexError"]
    ELSE IF node[Len(node)] = "!"
    THEN [s |-> SubSeq(node, 1, Len(node) - 1), mark |-> "!"]
    ELSE IF node[1] = "[" /\ node[Len(node)] = "]"
    THEN [s |-> SubSeq(node, 2, Len(node) - 1), mark |-> "["]
    ELSE [s |-> node, mark |-> "break"]

\* One iteration of the `while True` loop of _find_nodes:
\* `if node[-1] == "!": node = node[:-1]`,
\* `elif node[0] == "[": node = node[1:-1]`, `else: break`.
FindStripStep(node) ==
    IF node = <<>> THEN [s |-> node, mark |-> "IndexError"]
    ELSE IF node[Len(node)] = "!"
    THEN [s |-> SubSeq(node, 1, Len(node) - 1), mark |-> "!"]
    ELSE IF node[1] = "["
    THEN [s |-> SubSeq(node, 2, Len(node) - 1), mark |-> "["]
    ELSE [s |-> node, mark |-> "break"]

RECURSIVE FindStrip(_)
RECURSIVE FindStripNext(_, _)
\* The loop of _find_nodes: the name it goes on with.
FindStrip(node) == FindStripNext(node, FindStripStep(node))
FindStripNext(node, st) ==
    IF st.mark = "break" THEN [bare |-> node, raised |-> "none"]
    ELSE IF st.mark = "IndexError" THEN [bare |-> node, raised |-> "IndexError"]
    ELSE FindStrip(st.s)

\* BfsStr without `if node not in type_map`: a referenced name is recorded
\* as None whatever type_map holds for it.
BfsStrAlways(b, node, st) ==
    IF st.raised # "none"
    THEN [b EXCEPT !.q = <<>>, !.seen = Append(@, node), !.raised = st.raised]
    ELSE [b EXCEPT !.q = Tail(@), !.seen = Append(@, node),
                   !.tm = TMSet(@, st.bare, 0)]

\* `if node not in type_map: type_map[node] = None`, after the markers of
\* the string were stripped.
BfsStr(b, node, st) ==
    IF st.raised # "none"
    THEN [b EXCEPT !.q = <<>>, !.seen = Append(@, node), !.raised = st.raised]
    ELSE [b EXCEPT !.q = Tail(@), !.seen = Append(@, node),
                   !.tm = IF TMHas(@, st.bare) THEN @ ELSE TMSet(@, st.bare, 0)]

\* BfsIter without `type_map[node.name] = node`: only the types given to the
\* Schema are known.
BfsIterSeededOnly(h, b, node) ==
    IF node = None \/ InSeq(node, b.seen) THEN [b EXCEPT !.q = Tail(@)]
    ELSE IF IsStr(node) THEN BfsStr(b, node, FindStrip(node.s))
    ELSE [b EXCEPT !.q = Tail(@) \o FindNodesOf(h, node.o),
                   !.seen = Append(@, node),
                   !.expanded = Append(@, node.o)]

\* BfsIter without `or node in seen`: every reference is followed.
BfsIterUnseen(h, b, node) ==
    IF node = None THEN [b EXCEPT !.q = Tail(@)]
    ELSE IF IsStr(node) THEN BfsStr(b, node, FindStrip(node.s))
    ELSE [b EXCEPT !.q = Tail(@) \o FindNodesOf(h, node.o),
                   !.seen = Append(@, node),
                   !.tm = IF IsNamedType(h[node.o])
                          THEN TMSet(@, h[node.o].name, node.o) ELSE @,
                   !.expanded = Append(@, node.o)]

\* One iteration of `while q`: b is [q, seen, tm, expanded, raised]; seen
\* keeps the order of insertion, expanded the nodes whose _find_nodes ran.
BfsIter(h, b, node) ==
    IF node = None \/ InSeq(node, b.seen) THEN [b EXCEPT !.q = Tail(@)]
    ELSE IF IsStr(node) THEN BfsStr(b, node, FindStrip(node.s))
    ELSE [b EXCEPT !.q = Tail(@) \o FindNodesOf(h, node.o),
                   !.seen = Append(@, node),
                   !.tm = IF IsNamedType(h[node.o])
                          THEN TMSet(@, h[node.o].name, node.o) ELSE @,
                   !.expanded = Append(@, node.o)]

RECURSIVE BfsSteps(_, _, _)
\* At most n iterations of `while q`, the first half then the rest.
BfsSteps(h, b, n) ==
    IF b.q = <<>> \/ n = 0 THEN b
    ELSE IF n = 1 THEN BfsIter(h, b, Head(b.q))
    ELSE BfsSteps(h, BfsSteps(h, b, n \div 2), n - (n \div 2))

BfsEnd(b) == IF b.q = <<>> THEN b ELSE [b EXCEPT !.raised = "diverged"]

\* `while q`, as long as there is fuel.
BfsLoop(h, b, fuel) == BfsEnd(BfsSteps(h, b, fuel))

RECURSIVE ApplyLoop(_, _, _, _, _)
RECURSIVE ApplyNext(_, _, _, _, _, _)
\* `for node in seen: ... node._apply_types(type_map)`. A node's
\* _apply_types reads type_map and writes that node alone, so the order in
\* which the set is iterated changes nothing but the identity of the new
\* wrappers; the order of insertion is used.
ApplyLoop(h, seen, tm, i, applied) ==
    IF i > Len(seen) THEN [heap |-> h, applied |-> applied, raised |-> "none"]
    ELSE IF IsStr(seen[i]) THEN ApplyLoop(h, seen, tm, i + 1, applied)
    ELSE ApplyNext(h, seen, tm, i, applied, ApplyTypes(h, seen[i].o, tm))
ApplyNext(h, seen, tm, i, applied, r) ==
    IF r.raised # "none" THEN [heap |-> h, applied |-> applied, raised |-> r.raised]
    ELSE ApplyLoop(r.heap, seen, tm, i + 1, Append(applied, seen[i].o))

\* `q = deque(type_map.values()); q.append(query); q.append(mutation)`.
BfsStart(tm) ==
    [q |-> [i \in 1..Len(tm) |-> IF tm[i].v = 0 THEN None ELSE ObjRef(tm[i].v)]
           \o <<ObjRef(QueryId), ObjRef(MutationId)>>,
     seen |-> <<>>, tm |-> tm, expanded |-> <<>>, raised |-> "none"]

FindNodesApplied(b, tm, a) ==
    [heap |-> a.heap, tm |-> tm, seen |-> b.seen, expanded |-> b.expanded,
     applied |-> a.applied, raised |-> a.raised]

\* `del type_map[self.query.name], type_map[self.mutation.name]`, then the
\* second pass.
FindNodesDel(h, b, tm) == FindNodesApplied(b, tm, ApplyLoop(h, b.seen, tm, 1, <<>>))

\* FindNodesSeen without the `del`: the roots stay in type_map.
FindNodesSeenKept(h, b) ==
    IF b.raised # "none"
    THEN [heap |-> h, tm |-> b.tm, seen |-> b.seen, expanded |-> b.expanded,
          applied |-> <<>>, raised |-> b.raised]
    ELSE FindNodesDel(h, b, b.tm)

FindNodesSeen(h, b) ==
    IF b.raised # "none"
    THEN [heap |-> h, tm |-> b.tm, seen |-> b.seen, expanded |-> b.expanded,
          applied |-> <<>>, raised |-> b.raised]
    ELSE FindNodesDel(h, b, TMDel(TMDel(b.tm, h[QueryId].name), h[MutationId].name))

\* Schema._find_nodes(): the heap and type_map it leaves, and what it did.
FindNodes(h, tm) == FindNodesSeen(h, BfsLoop(h, BfsStart(tm), MaxSteps))

----------------------------------------------------------------------------
\* Node._to_graphql and _make_graphql_node

\* A GraphQL-Core object: `node` is extensions["magql_node"], `of` holds what
\* the constructor was given (a field's type then its arguments, a wrapper's
\* inner type, a union's members, a schema's query and mutation), `fields`
\* and `interfaces` the values of the thunks once evaluated, `pending` the
\* thunks not evaluated yet.
NewGql(kind, node, of, pending) ==
    [kind |-> kind, node |-> node, of |-> of, fields |-> <<>>,
     interfaces |-> <<>>, pending |-> pending]

\* The nodes _make_graphql_node converts before it builds its own object.
EagerChildren(h, n) ==
    LET nd == h[n] IN
    CASE nd.kind = "Field" -> <<nd.type>> \o ObjRefs(nd.args)
      [] nd.kind \in {"Argument", "InputField"} \cup WrappingKinds -> <<nd.type>>
      [] nd.kind = "Union" -> nd.types
      [] OTHER -> <<>>

\* The nodes a `lambda:` given to GraphQL-Core converts when it is called.
ThunkChildren(h, n, thunk) ==
    IF thunk = "fields" THEN ObjRefs(h[n].fields) ELSE h[n].interfaces

Thunks(kind) ==
    CASE kind \in {"Object", "Interface"} -> {"fields", "interfaces"}
      [] kind = "InputObject" -> {"fields"}
      [] OTHER -> {}

Frame(n, thunk, cid) == [n |-> n, i |-> 1, kids |-> <<>>, thunk |-> thunk, cid |-> cid]

\* The stack after the callee on top of it returned `cid`.
Return(stack, cid) ==
    LET below == SubSeq(stack, 1, Len(stack) - 1) IN
    IF below = <<>> THEN below
    ELSE [below EXCEPT ![Len(below)].kids = Append(@, cid), ![Len(below)].i = @ + 1]

\* _make_graphql_node of the frame on top builds its object and _to_graphql
\* stores it.
MakeGraphqlNode(c) ==
    LET f == c.stack[Len(c.stack)]
        cid == Len(c.gql) + 1
        kind == c.heap[f.n].kind
    IN [c EXCEPT !.gql = Append(@, NewGql(kind, f.n, f.kids, Thunks(kind))),
                 !.heap[f.n].graphql_node = cid,
                 !.heap[f.n].n_make = @ + 1,
                 !.heap[f.n].rets = @ \cup {cid},
                 !.heap[f.n].n_call = @ + 1,
                 !.made = Append(@, f.n),
                 !.stack = Return(c.stack, cid)]

\* ToGraphql without `if self._graphql_node is None`: every call builds.
ToGraphqlUnmemoized(c, child) ==
    [c EXCEPT !.stack = Append(@, Frame(child, "", 0)),
              !.heap[child].n_start = @ + 1]

\* child._to_graphql() called by the frame on top: the cached object if
\* there is one, else _make_graphql_node starts.
ToGraphql(c, child) ==
    LET top == Len(c.stack) IN
    IF c.heap[child].graphql_node # 0
    THEN [c EXCEPT !.stack[top].kids = Append(@, c.heap[child].graphql_node),
                   !.stack[top].i = @ + 1,
                   !.heap[child].rets = @ \cup {c.heap[child].graphql_node},
                   !.heap[child].n_call = @ + 1]
    ELSE [c EXCEPT !.stack = Append(@, Frame(child, "", 0)),
                   !.heap[child].n_start = @ + 1]

\* One step of the frame on top of the stack.
CompileStep(c) ==
    LET f == c.stack[Len(c.stack)]
        children == IF f.thunk = "" THEN EagerChildren(c.heap, f.n)
                    ELSE ThunkChildren(c.heap, f.n, f.thunk)
    IN
    IF f.i <= Len(children) THEN
        IF ~IsObj(children[f.i])
        \* a str has no _to_graphql
        THEN [c EXCEPT !.raised = "AttributeError", !.stack = <<>>]
        ELSE ToGraphql(c, children[f.i].o)
    ELSE IF f.thunk = "" THEN MakeGraphqlNode(c)
    ELSE IF f.thunk = "fields"
    THEN [c EXCEPT !.gql[f.cid].fields = f.kids,
                   !.gql[f.cid].pending = @ \ {"fields"},
                   !.stack = Return(c.stack, 0)]
    ELSE [c EXCEPT !.gql[f.cid].interfaces = f.kids,
                   !.gql[f.cid].pending = @ \ {"interfaces"},
                   !.stack = Return(c.stack, 0)]

\* The types a compiled field, argument or input field refers to.
MemberTypes(g, m) ==
    <<g[m].of[1]>> \o [i \in 1..(Len(g[m].of) - 1) |-> g[g[m].of[i + 1]].of[1]]

RECURSIVE Flatten(_)
Flatten(seqs) == IF seqs = <<>> THEN <<>> ELSE Head(seqs) \o Flatten(Tail(seqs))

\* graphql.GraphQLSchema(query, mutation) collects every type the roots
\* reach, and for that calls the thunks of each object it meets. One step:
\* the next type of the work list.
CollectStep(c) ==
    LET cid == Head(c.work)
        g == c.gql[cid]
    IN
    IF g.kind \in WrappingKinds THEN [c EXCEPT !.work = <<g.of[1]>> \o Tail(@)]
    ELSE IF cid \in c.visited THEN [c EXCEPT !.work = Tail(@)]
    ELSE IF "interfaces" \in g.pending
    THEN [c EXCEPT !.stack = <<Frame(g.node, "interfaces", cid)>>]
    ELSE IF "fields" \in g.pending
    THEN [c EXCEPT !.stack = <<Frame(g.node, "fields", cid)>>]
    ELSE [c EXCEPT !.visited = @ \cup {cid},
                   !.work = Tail(@) \o g.interfaces
                            \o (IF g.kind = "Union" THEN g.of ELSE <<>>)
                            \o Flatten([i \in 1..Len(g.fields) |->
                                          MemberTypes(c.gql, g.fields[i])])]

RunOver(c) == c.raised # "none" \/ (c.stack = <<>> /\ c.work = <<>>)

RECURSIVE RunSteps(_, _)
\* At most n steps, the first half then the rest: the frame on top of the
\* stack while there is one, else the work list.
RunSteps(c, n) ==
    IF RunOver(c) \/ n = 0 THEN c
    ELSE IF n = 1 THEN (IF c.stack # <<>> THEN CompileStep(c) ELSE CollectStep(c))
    ELSE RunSteps(RunSteps(c, n \div 2), n - (n \div 2))

RunEnd(c) == IF RunOver(c) THEN c ELSE [c EXCEPT !.raised = "diverged"]

\* Runs the stack empty, then the work list, until both are empty or an
\* exception leaves, as long as there is fuel.
Run(c, fuel) == RunEnd(RunSteps(c, fuel))

\* node._to_graphql() called from outside any _make_graphql_node.
CallToGraphql(c, n) ==
    IF c.raised # "none" THEN c
    ELSE IF c.heap[n].graphql_node # 0
    THEN [c EXCEPT !.heap[n].rets = @ \cup {c.heap[n].graphql_node},
                   !.heap[n].n_call = @ + 1]
    ELSE Run([c EXCEPT !.stack = <<Frame(n, "", 0)>>, !.heap[n].n_start = @ + 1],
             MaxSteps)

----------------------------------------------------------------------------
\* Schema.to_graphql

\* Unmapped without sorted().
UnmappedUnsorted(tm) == TMKeys(SelectSeq(tm, LAMBDA item : item.v = 0))

\* `sorted(k for k, v in self.type_map.items() if v is None)`.
Unmapped(tm) == Sorted(TMKeys(SelectSeq(tm, LAMBDA item : item.v = 0)))

NoCall ==
    [op |-> "none", raised |-> "none", names |-> <<>>, ret |-> 0, ran |-> FALSE,
     seen |-> <<>>, expanded |-> <<>>, applied |-> <<>>, made |-> <<>>]

CallRecord(fn) ==
    [NoCall EXCEPT !.op = "to_graphql", !.ran = TRUE, !.seen = fn.seen,
                   !.expanded = fn.expanded, !.applied = fn.applied]

CompileStart(fn, g) ==
    [heap |-> fn.heap, gql |-> g, stack |-> <<>>, work |-> <<>>,
     visited |-> {}, raised |-> "none", made |-> <<>>]

\* `self._graphql_schema = schema = graphql.GraphQLSchema(...)`, after the
\* constructor has collected the types.
CompileSchema(fn, call, c, query, mutation) ==
    IF c.raised # "none"
    THEN [heap |-> c.heap, tm |-> fn.tm, gql |-> c.gql, schema |-> 0,
          call |-> [call EXCEPT !.raised = c.raised, !.made = c.made]]
    ELSE [heap |-> c.heap, tm |-> fn.tm,
          gql |-> Append(c.gql, NewGql("Schema", 0, <<query, mutation>>, {})),
          schema |-> Len(c.gql) + 1,
          call |-> [call EXCEPT !.ret = Len(c.gql) + 1, !.made = c.made]]

CompileCollect(fn, call, c, query, mutation) ==
    CompileSchema(fn, call,
                  Run([c EXCEPT !.work = SelectSeq(<<query, mutation>>,
                                                   LAMBDA x : x # 0)], MaxSteps),
                  query, mutation)

CompileMutationDone(fn, call, c, query) ==
    CompileCollect(fn, call, c, query, c.heap[MutationId].graphql_node)

\* `if self.mutation.fields: mutation = self.mutation._to_graphql()`.
CompileMutation(fn, call, c, query, has) ==
    IF has
    THEN CompileMutationDone(fn, call, CallToGraphql(c, MutationId), query)
    ELSE CompileCollect(fn, call, c, query, 0)

CompileQueryDone(fn, call, c) ==
    CompileMutation(fn, call, c, c.heap[QueryId].graphql_node,
                    c.heap[MutationId].fields # <<>>)

\* CompileQuery without `if self.query.fields`: the root is always compiled.
CompileQueryAlways(fn, call, c, has) ==
    CompileQueryDone(fn, call, CallToGraphql(c, QueryId))

\* `if self.query.fields: query = self.query._to_graphql()`.
CompileQuery(fn, call, c, has) ==
    IF has
    THEN CompileQueryDone(fn, call, CallToGraphql(c, QueryId))
    ELSE CompileMutation(fn, call, c, 0, c.heap[MutationId].fields # <<>>)

\* CompileUnmapped with the roots converted before the names are checked.
CompileUnmappedLate(fn, g, call, unmapped) ==
    IF unmapped # <<>>
    THEN [CompileQuery(fn, call, CompileStart(fn, g), fn.heap[QueryId].fields # <<>>)
            EXCEPT !.schema = 0, !.call.raised = "KeyError", !.call.names = unmapped,
                   !.call.ret = 0]
    ELSE CompileQuery(fn, call, CompileStart(fn, g), fn.heap[QueryId].fields # <<>>)

CompileUnmapped(fn, g, call, unmapped) ==
    IF unmapped # <<>>
    THEN [heap |-> fn.heap, tm |-> fn.tm, gql |-> g, schema |-> 0,
          call |-> [call EXCEPT !.raised = "KeyError", !.names = unmapped]]
    ELSE CompileQuery(fn, call, CompileStart(fn, g), fn.heap[QueryId].fields # <<>>)

CompileFound(fn, g, call) ==
    IF fn.raised # "none"
    THEN [heap |-> fn.heap, tm |-> fn.tm, gql |-> g, schema |-> 0,
          call |-> [call EXCEPT !.raised = fn.raised]]
    ELSE CompileUnmapped(fn, g, call, Unmapped(fn.tm))

CompileFoundNodes(fn, g) == CompileFound(fn, g, CallRecord(fn))

\* Everything to_graphql does when no schema is cached: the state it leaves
\* and the record of the call.
Compile(h, tm, g) == CompileFoundNodes(FindNodes(h, tm), g)

----------------------------------------------------------------------------
\* The schema and the descriptor objects user code has created

IntId == 3
UserId == 4
FriendId == 5
UserFieldId == 6
UserCreateId == 7
InputArgId == 8
UserInputId == 9
AgeId == 10
NodeId == 11
PetId == 12
UserListId == 13
InputNonNullId == 14
TagsId == 15
GridId == 16

InputKey == <<"i", "n", "p", "u", "t">>
AgeKey == <<"a", "g", "e">>
TagsKey == <<"t", "a", "g", "s">>
GridKey == <<"g", "r", "i", "d">>

\* magql.Schema(): the two roots and a default scalar (scalars.Int, whose
\* _graphql_node is set when the module is imported); then the objects user
\* code has created and not attached yet.
InitHeap ==
    << NewNode("Object", QueryName, None, <<>>, <<>>, <<>>, <<>>),
       NewNode("Object", MutationName, None, <<>>, <<>>, <<>>, <<>>),
       [NewNode("Scalar", IntName, None, <<>>, <<>>, <<>>, <<>>)
            EXCEPT !.graphql_node = 1, !.rets = {1}],
       NewNode("Object", UserName, None, <<FriendId>>, <<>>, <<StrRef(NodeName)>>, <<>>),
       NewNode("Field", <<>>, StrRef(<<"[">> \o UserName \o <<"!", "]", "!">>),
               <<>>, <<>>, <<>>, <<>>),
       NewNode("Field", <<>>, StrRef(UserName), <<>>, <<>>, <<>>, <<>>),
       NewNode("Field", <<>>, ObjRef(UserListId), <<>>, <<InputArgId>>, <<>>, <<>>),
       NewNode("Argument", InputKey, ObjRef(InputNonNullId), <<>>, <<>>, <<>>, <<>>),
       NewNode("InputObject", UserInputName, None, <<AgeId>>, <<>>, <<>>, <<>>),
       NewNode("InputField", AgeKey, ObjRef(IntId), <<>>, <<>>, <<>>, <<>>),
       NewNode("Interface", NodeName, None, <<>>, <<>>, <<>>, <<>>),
       NewNode("Union", PetName, None, <<>>, <<>>, <<>>, <<StrRef(UserName)>>),
       NewWrapping("List", ObjRef(UserId)),
       NewWrapping("NonNull", StrRef(UserInputName)),
       NewNode("Argument", TagsKey, StrRef(<<"[">> \o IntName \o <<"!", "]">>),
               <<>>, <<>>, <<>>, <<>>),
       NewNode("Argument", GridKey, StrRef(<<"[", "[">> \o IntName \o <<"!", "]", "]">>),
               <<>>, <<>>, <<>>, <<>>) >>

InitGql == << NewGql("Scalar", IntId, <<>>, {}) >>

----------------------------------------------------------------------------
\* Python values: arguments, error messages, return values

\* None, an int, a str (s), a list (l) or a dict (keys and, beside them, the
\* values in l, in insertion order).
PyNone == [t |-> "None", i |-> 0, s |-> <<>>, keys |-> <<>>, l |-> <<>>]
PyInt(i) == [PyNone EXCEPT !.t = "int", !.i = i]
PyStr(s) == [PyNone EXCEPT !.t = "str", !.s = s]
PyList(l) == [PyNone EXCEPT !.t = "list", !.l = l]
PyDict(keys, l) == [PyNone EXCEPT !.t = "dict", !.keys = keys, !.l = l]

\* bool(v).
Truthy(v) ==
    CASE v.t = "None" -> FALSE
      [] v.t = "int" -> v.i # 0
      [] v.t = "str" -> v.s # <<>>
      [] v.t = "list" -> v.l # <<>>
      [] v.t = "dict" -> v.keys # <<>>

\* any(values).
AnyTruthy(values) == \E i \in 1..Len(values) : Truthy(values[i])

DictHas(d, k) == InSeq(k, d.keys)
DictGet(d, k) == d.l[Position(d.keys, k)]
\* d[k] = v
DictSet(d, k, v) ==
    IF DictHas(d, k) THEN [d EXCEPT !.l[Position(d.keys, k)] = v]
    ELSE [d EXCEPT !.keys = Append(@, k), !.l = Append(@, v)]
\* del d[k]
DictDel(d, k) ==
    LET keep == {i \in 1..Len(d.keys) : d.keys[i] # k}
        F[i \in 0..Len(d.keys)] ==
            IF i = 0 THEN [keys |-> <<>>, l |-> <<>>]
            ELSE IF i \in keep
            THEN [keys |-> Append(F[i - 1].keys, d.keys[i]), l |-> Append(F[i - 1].l, d.l[i])]
            ELSE F[i - 1]
    IN [d EXCEPT !.keys = F[Len(d.keys)].keys, !.l = F[Len(d.keys)].l]

\* `name in data`: ok is FALSE where Python raises TypeError.
Contains(data, name) ==
    CASE data.t = "dict" -> [ok |-> TRUE, has |-> DictHas(data, name)]
      [] data.t = "list" -> [ok |-> TRUE, has |-> InSeq(PyStr(name), data.l)]
      [] data.t = "str" ->
           [ok |-> TRUE,
            has |-> \E i \in 1..(Len(data.s) + 1) :
                        /\ i + Len(name) - 1 <= Len(data.s)
                        /\ SubSeq(data.s, i, i + Len(name) - 1) = name]
      [] OTHER -> [ok |-> FALSE, has |-> FALSE]

\* `for item in value`: ok is FALSE where Python raises TypeError.
Iter(value) ==
    CASE value.t = "list" -> [ok |-> TRUE, items |-> value.l]
      [] value.t = "str" ->
           [ok |-> TRUE, items |-> [i \in 1..Len(value.s) |-> PyStr(<<value.s[i]>>)]]
      [] value.t = "dict" ->
           [ok |-> TRUE, items |-> [i \in 1..Len(value.keys) |-> PyStr(value.keys[i])]]
      [] OTHER -> [ok |-> FALSE, items |-> <<>>]

----------------------------------------------------------------------------
\* The callables user code registers

Returns(v) == [exc |-> "none", message |-> PyNone, ret |-> v]
\* `raise ValidationError(message)`
Invalid(message) == [exc |-> "ValidationError", message |-> message, ret |-> PyNone]
\* `raise RuntimeError()`
Crash == [exc |-> "RuntimeError", message |-> PyNone, ret |-> PyNone]
\* What Python itself raises on a value of the wrong type.
TypeError == [exc |-> "TypeError", message |-> PyNone, ret |-> PyNone]

Msg(a, b) == PyStr(<<a, b>>)

\* Pre-hooks and resolvers, f(parent, info, **kwargs).
ResolverCallables == {"allow", "deny", "deny_list", "deny_dict", "crash"}
\* The default of Field(resolve=...).
DefaultResolve == "resolve_attr"
\* Value validators, f(info, value, data).
ValueCallables == {"accept", "reject_negative", "reject_list", "fail"}
\* Data validators, f(info, data).
DataCallables == {"data_accept", "reject_fields", "reject_more", "reject_str",
                  "reject_all", "data_fail"}

\* What the call f(...) does when `value` is the validated value, the
\* validated data or the keyword arguments.
Behaviour(f, value) ==
    CASE f = "resolve_attr" -> Returns(PyStr(<<"a", "t", "t", "r">>))
      [] f = "allow" -> Returns(PyStr(<<"o", "k">>))
      [] f = "deny" -> Invalid(Msg("p", "1"))
      [] f = "deny_list" -> Invalid(PyList(<<Msg("p", "2"), Msg("p", "3")>>))
      [] f = "deny_dict" -> Invalid(PyDict(<<InputKey>>, <<PyList(<<Msg("p", "4")>>)>>))
      [] f = "crash" -> Crash
      [] f = "accept" -> Returns(PyNone)
      [] f = "reject_negative" ->
           IF value.t = "int" /\ value.i < 0 THEN Invalid(Msg("v", "1"))
           ELSE Returns(PyNone)
      [] f = "reject_list" -> Invalid(PyList(<<Msg("v", "2"), Msg("v", "3")>>))
      [] f = "fail" -> Crash
      [] f = "reject_empty" -> Invalid(PyList(<<>>))
      [] f = "reject_blank" -> Invalid(PyStr(<<>>))
      [] f = "data_accept" -> Returns(PyNone)
      [] f = "reject_fields" ->
           Invalid(PyDict(<<InputKey, AgeKey, <<>> >>,
                          <<PyList(<<Msg("d", "1"), Msg("d", "2")>>), Msg("d", "3"),
                            Msg("d", "4")>>))
      [] f = "reject_more" ->
           Invalid(PyDict(<<AgeKey, InputKey>>,
                          <<PyList(<<Msg("d", "5")>>), Msg("d", "6")>>))
      [] f = "reject_str" -> Invalid(Msg("d", "7"))
      [] f = "reject_all" -> Invalid(PyList(<<Msg("d", "8"), Msg("d", "9")>>))
      [] f = "data_fail" -> Crash
      [] f = "reject_nothing" -> Invalid(PyDict(<<>>, <<>>))

\* An entry of a validators list: a callable, or a list of entries (a group
\* applied to each item of a list value).
Fn(f) == [f |-> f, group |-> <<>>]
Group(entries) == [f |-> "", group |-> entries]
IsGroup(entry) == entry.f = ""

\* A call as `trace` keeps it: the callable, what it was called as ("pre",
\* "value", "data" or "resolver"), the node whose list held it, its argument.
Called(f, role, node, value) == [fn |-> f, role |-> role, node |-> node, value |-> value]

\* The running state of a validation: the calls made so far and the
\* exception that is propagating, if any, with its message.
Ran(tr) == [trace |-> tr, exc |-> "none", message |-> PyNone, ret |-> PyNone]
Raised(tr, exc, message) == [trace |-> tr, exc |-> exc, message |-> message, ret |-> PyNone]

CallResult(tr, b) == [trace |-> tr, exc |-> b.exc, message |-> b.message, ret |-> b.ret]
\* f(...) called and logged.
CallFn(tr, f, role, node, value) ==
    CallResult(Append(tr, Called(f, role, node, value)), Behaviour(f, value))

----------------------------------------------------------------------------
\* _validate_value and _DataValidatorNode.validate
\*
\* e is [h |-> heap, v |-> validators]; tr the calls made so far. Every
\* operator gives back the running state: an exception other than
\* ValidationError propagates through all of them.

KindOf(h, type) == IF IsObj(type) THEN h[type.o].kind ELSE "str"

RECURSIVE NestedType(_, _)
\* `while isinstance(nested_type, Wrapping): nested_type = nested_type.type;
\*  if isinstance(nested_type, List): break`
NestedType(h, type) ==
    IF KindOf(h, type) \notin WrappingKinds THEN type
    ELSE IF KindOf(h, h[type.o].type) = "List" THEN h[type.o].type
    ELSE NestedType(h, h[type.o].type)

\* `if isinstance(type, NonNull): type = type.type`
UnwrapNonNull(h, type) == IF KindOf(h, type) = "NonNull" THEN h[type.o].type ELSE type

\* `_items_to_validate`: Field.args or InputObject.fields.
ItemsToValidate(h, n) == IF h[n].kind = "Field" THEN h[n].args ELSE h[n].fields

\* errors.extend(message) for a list, errors.append(message) otherwise.
ExtendOrAppend(errors, message) ==
    IF message.t = "list" THEN errors \o message.l ELSE Append(errors, message)

RECURSIVE MergeDictOverwrite(_, _, _)
\* MergeDict as `errors[k] = v if isinstance(v, list) else [v]`: what was
\* filed under the key before is lost.
MergeDictOverwrite(errors, message, i) ==
    IF i > Len(message.keys) THEN errors
    ELSE MergeDictOverwrite(
            DictSet(errors, message.keys[i],
                    PyList(ExtendOrAppend(<<>>, message.l[i]))),
            message, i + 1)

RECURSIVE MergeDict(_, _, _)
\* `for k, v in e.message.items()`: start a list under a new key, then
\* extend it with a list, append anything else.
MergeDict(errors, message, i) ==
    IF i > Len(message.keys) THEN errors
    ELSE MergeDict(
            DictSet(errors, message.keys[i],
                    PyList(ExtendOrAppend(
                        IF DictHas(errors, message.keys[i])
                        THEN DictGet(errors, message.keys[i]).l ELSE <<>>,
                        message.l[i]))),
            message, i + 1)

\* What a failed data validator adds to errors.
MergeData(errors, message) ==
    IF message.t = "dict" THEN MergeDict(errors, message, 1)
    ELSE DictSet(errors, <<>>, PyList(ExtendOrAppend(DictGet(errors, <<>>).l, message)))

RECURSIVE ValidateValue(_, _, _, _, _, _, _)
RECURSIVE ValueLoop(_, _, _, _, _, _, _, _, _)
RECURSIVE ValueCalled(_, _, _, _, _, _, _, _, _)
RECURSIVE ValueCalledFailFast(_, _, _, _, _, _, _, _, _)
RECURSIVE GroupLoop(_, _, _, _, _, _, _, _, _, _, _, _)
RECURSIVE GroupItem(_, _, _, _, _, _, _, _, _, _, _, _)
RECURSIVE GroupItemAligned(_, _, _, _, _, _, _, _, _, _, _, _)
RECURSIVE Validate(_, _, _, _)
RECURSIVE ItemLoop(_, _, _, _, _, _)
RECURSIVE ItemFound(_, _, _, _, _, _, _)
RECURSIVE ItemDone(_, _, _, _, _, _)
RECURSIVE ItemDoneFailFast(_, _, _, _, _, _)
RECURSIVE DataLoop(_, _, _, _, _, _)

\* The end of _validate_value: `if errors: raise ValidationError(errors)`.
ValueEnd(tr, errors) ==
    IF errors # <<>> THEN Raised(tr, "ValidationError", PyList(errors)) ELSE Ran(tr)

\* `for f in validators` of _validate_value, from entry i on.
ValueLoop(e, type, vs, value, data, node, i, tr, errors) ==
    IF i > Len(vs) THEN ValueEnd(tr, errors)
    ELSE IF IsGroup(vs[i])
    THEN GroupLoop(e, type, vs, value, data, node, i, tr, errors,
                   Iter(value), 1, <<>>)
    ELSE ValueCalled(e, type, vs, value, data, node, i, errors,
                     CallFn(tr, vs[i].f, "value", node, value))

\* ValueCalled that ends the loop at the first validator that fails.
ValueCalledFailFast(e, type, vs, value, data, node, i, errors, r) ==
    IF r.exc = "none"
    THEN ValueLoop(e, type, vs, value, data, node, i + 1, r.trace, errors)
    ELSE IF r.exc = "ValidationError"
    THEN ValueEnd(r.trace, ExtendOrAppend(errors, r.message))
    ELSE r

\* After `f(info, value, data)`.
ValueCalled(e, type, vs, value, data, node, i, errors, r) ==
    IF r.exc = "none"
    THEN ValueLoop(e, type, vs, value, data, node, i + 1, r.trace, errors)
    ELSE IF r.exc = "ValidationError"
    THEN ValueLoop(e, type, vs, value, data, node, i + 1, r.trace,
                   ExtendOrAppend(errors, r.message))
    ELSE r

\* `for item in value` of the group vs[i], from item j on; at the end
\* `if any(list_errors): errors.append(list_errors)`.
GroupLoop(e, type, vs, value, data, node, i, tr, errors, it, j, list_errors) ==
    IF ~it.ok THEN Raised(tr, "TypeError", PyNone)
    ELSE IF j > Len(it.items)
    THEN ValueLoop(e, type, vs, value, data, node, i + 1, tr,
                   IF AnyTruthy(list_errors)
                   THEN Append(errors, PyList(list_errors)) ELSE errors)
    ELSE GroupItem(e, type, vs, value, data, node, i, errors, it, j, list_errors,
                   ValidateValue(e, NestedType(e.h, type), vs[i].group,
                                 it.items[j], data, node, tr))

\* GroupItem with `list_errors.append(e.message)` for every message.
GroupItemAligned(e, type, vs, value, data, node, i, errors, it, j, list_errors, r) ==
    IF r.exc = "none"
    THEN GroupLoop(e, type, vs, value, data, node, i, r.trace, errors, it, j + 1,
                   Append(list_errors, PyNone))
    ELSE IF r.exc = "ValidationError"
    THEN GroupLoop(e, type, vs, value, data, node, i, r.trace, errors, it, j + 1,
                   Append(list_errors, r.message))
    ELSE r

\* After `_validate_value(nested_type, f, info, item, data)`.
GroupItem(e, type, vs, value, data, node, i, errors, it, j, list_errors, r) ==
    IF r.exc = "none"
    THEN GroupLoop(e, type, vs, value, data, node, i, r.trace, errors, it, j + 1,
                   Append(list_errors, PyNone))
    ELSE IF r.exc = "ValidationError"
    THEN GroupLoop(e, type, vs, value, data, node, i, r.trace, errors, it, j + 1,
                   ExtendOrAppend(list_errors, r.message))
    ELSE r

\* After `type.validate(info, value)` of an InputObject type.
ValueObject(e, type, vs, value, data, node, r) ==
    IF r.exc = "none" THEN ValueLoop(e, type, vs, value, data, node, 1, r.trace, <<>>)
    ELSE IF r.exc = "ValidationError"
    THEN ValueLoop(e, type, vs, value, data, node, 1, r.trace, <<r.message>>)
    ELSE r

\* ValueUnwrapped without the InputObject branch.
ValueUnwrappedScalar(e, type, vs, value, data, node, tr) ==
    ValueLoop(e, type, vs, value, data, node, 1, tr, <<>>)

ValueUnwrapped(e, type, vs, value, data, node, tr) ==
    IF KindOf(e.h, type) = "InputObject"
    THEN ValueObject(e, type, vs, value, data, node, Validate(e, type.o, value, tr))
    ELSE ValueLoop(e, type, vs, value, data, node, 1, tr, <<>>)

\* _validate_value(type, validators, info, value, data), called for `node`.
ValidateValue(e, type, vs, value, data, node, tr) ==
    ValueUnwrapped(e, UnwrapNonNull(e.h, type), vs, value, data, node, tr)

\* The end of validate: `if not errors[""]: del errors[""]`, then
\* `if errors: raise ValidationError(errors)`.
DataDeleted(tr, errors) ==
    IF Truthy(errors) THEN Raised(tr, "ValidationError", errors) ELSE Ran(tr)
DataEnd(tr, errors) ==
    DataDeleted(tr, IF Truthy(DictGet(errors, <<>>)) THEN errors ELSE DictDel(errors, <<>>))

\* After `f(info, data)`.
DataCalled(e, n, data, i, errors, r) ==
    IF r.exc = "none" THEN DataLoop(e, n, data, i + 1, r.trace, errors)
    ELSE IF r.exc = "ValidationError"
    THEN DataLoop(e, n, data, i + 1, r.trace, MergeData(errors, r.message))
    ELSE r

\* `for f in self.validators` of validate, from validator i on.
DataLoop(e, n, data, i, tr, errors) ==
    IF i > Len(e.v[n]) THEN DataEnd(tr, errors)
    ELSE DataCalled(e, n, data, i, errors, CallFn(tr, e.v[n][i].f, "data", n, data))

\* ItemDone that raises at the first item that fails.
ItemDoneFailFast(e, n, data, i, errors, r) ==
    IF r.exc = "none" THEN ItemLoop(e, n, data, i + 1, r.trace, errors)
    ELSE IF r.exc = "ValidationError"
    THEN DataEnd(r.trace, DictSet(errors, e.h[ItemsToValidate(e.h, n)[i]].name, r.message))
    ELSE r

\* After `item.validate(info, data[name], data)`.
ItemDone(e, n, data, i, errors, r) ==
    IF r.exc = "none" THEN ItemLoop(e, n, data, i + 1, r.trace, errors)
    ELSE IF r.exc = "ValidationError"
    THEN ItemLoop(e, n, data, i + 1, r.trace,
                  DictSet(errors, e.h[ItemsToValidate(e.h, n)[i]].name, r.message))
    ELSE r

\* `if name not in data: continue`, else the item validates data[name].
ItemFound(e, n, data, i, tr, errors, c) ==
    IF ~c.ok THEN Raised(tr, "TypeError", PyNone)
    ELSE IF ~c.has THEN ItemLoop(e, n, data, i + 1, tr, errors)
    ELSE IF data.t # "dict" THEN Raised(tr, "TypeError", PyNone)
    ELSE ItemDone(e, n, data, i, errors,
                  ValidateValue(e, e.h[ItemsToValidate(e.h, n)[i]].type,
                                e.v[ItemsToValidate(e.h, n)[i]],
                                DictGet(data, e.h[ItemsToValidate(e.h, n)[i]].name),
                                data, ItemsToValidate(e.h, n)[i], tr))

\* `for name, item in self._items_to_validate.items()`, from item i on.
ItemLoop(e, n, data, i, tr, errors) ==
    IF i > Len(ItemsToValidate(e.h, n)) THEN DataLoop(e, n, data, 1, tr, errors)
    ELSE ItemFound(e, n, data, i, tr, errors,
                   Contains(data, e.h[ItemsToValidate(e.h, n)[i]].name))

\* _DataValidatorNode.validate(info, data) of the Field or InputObject n.
Validate(e, n, data, tr) ==
    ItemLoop(e, n, data, 1, tr, PyDict(<< <<>> >>, <<PyList(<<>>)>>))

----------------------------------------------------------------------------
\* Field.resolve

\* Extensions without the wrapping of a str or list message.
ExtensionsAsRaised(message) == message

\* The message of the ValidationError as the extensions of the GraphQLError.
Extensions(message) ==
    CASE message.t = "str" -> PyDict(<< <<>> >>, <<PyList(<<message>>)>>)
      [] message.t = "list" -> PyDict(<< <<>> >>, <<message>>)
      [] OTHER -> message

\* How resolve ends: kind is "return" or the class of the exception that
\* leaves; a GraphQLError has its message, its extensions and, as error, the
\* message of its original_error. kwargs is what resolve was called with.
NoOutcome ==
    [kind |-> "none", message |-> "", extensions |-> PyNone, error |-> PyNone,
     ret |-> PyNone, kwargs |-> PyNone]

\* Except as `except Exception as e`: every exception becomes the error.
ExceptAny(r) ==
    [trace |-> r.trace,
     outcome |->
        IF r.exc = "none" THEN [NoOutcome EXCEPT !.kind = "return", !.ret = r.ret]
        ELSE [NoOutcome EXCEPT !.kind = "GraphQLError",
                               !.message = "magql argument validation",
                               !.extensions = Extensions(r.message),
                               !.error = r.message]]

\* `except ValidationError as e: ... raise graphql.GraphQLError(...)`.
Except(r) ==
    [trace |-> r.trace,
     outcome |->
        CASE r.exc = "none" -> [NoOutcome EXCEPT !.kind = "return", !.ret = r.ret]
          [] r.exc = "ValidationError" ->
               [NoOutcome EXCEPT !.kind = "GraphQLError",
                                 !.message = "magql argument validation",
                                 !.extensions = Extensions(r.message),
                                 !.error = r.message]
          [] OTHER -> [NoOutcome EXCEPT !.kind = r.exc]]

\* ResolveValidated with the resolver called whatever validation found.
ResolveUnchecked(res, field, kwargs, r) ==
    IF r.exc \notin {"none", "ValidationError"} THEN Except(r)
    ELSE Except(CallFn(r.trace, res, "resolver", field, kwargs))

\* `self.validate(info, kwargs)` went through: `return self._resolve(...)`.
ResolveValidated(res, field, kwargs, r) ==
    IF r.exc # "none" THEN Except(r)
    ELSE Except(CallFn(r.trace, res, "resolver", field, kwargs))

\* The pre-hook went through: `self.validate(info, kwargs)`.
ResolveHooked(e, res, field, kwargs, r) ==
    IF r.exc # "none" THEN Except(r)
    ELSE ResolveValidated(res, field, kwargs, Validate(e, field, kwargs, r.trace))

\* Field.resolve(parent, info, **kwargs) of `field`, with pre as
\* _pre_resolve ("" is None) and res as _resolve.
Resolve(e, pre, res, field, kwargs) ==
    ResolveHooked(e, res, field, kwargs,
                  IF pre # "" THEN CallFn(<<>>, pre, "pre", field, kwargs)
                  ELSE Ran(<<>>))

\* The named types user code may pass to Schema(types=...) or to add_type.
AddableTypes == {UserId, UserInputId, NodeId}
\* The nodes whose type user code assigns, and the values it assigns.
Retyped == {FriendId, UserFieldId, AgeId}
TypeChoices ==
    {StrRef(QueryName), StrRef(RankName \o <<"!">>), StrRef(IntName), ObjRef(PetId)}
\* The fields user code adds to the roots.
Attachable == {<<QueryId, UserFieldId>>, <<MutationId, UserCreateId>>}

RECURSIVE AddTypes(_, _)
\* `for item in ...: self.type_map[item.name] = item`.
AddTypes(tm, ids) ==
    IF ids = <<>> THEN tm
    ELSE AddTypes(TMSet(tm, InitHeap[Head(ids)].name, Head(ids)), Tail(ids))

\* Schema.__init__(types): the magql default scalars (none modelled), the
\* given types, then the GraphQL default scalars.
SchemaInit(types) == AddTypes(<<>>, types \o <<IntId>>)

\* validators=None of every constructor: `validators = []`.
NoValidators == [n \in 1..Len(InitHeap) |-> <<>>]
\* No thread is in to_graphql.
NoThreads == <<>>

InitSchema ==
    /\ heap = InitHeap
    /\ gql = InitGql
    /\ \E a \in SUBSET AddableTypes :
         type_map = SchemaInit(SelectSeq(<<UserId, UserInputId, NodeId>>,
                                         LAMBDA x : x \in a))
    /\ graphql_schema = 0
    /\ last = NoCall
    /\ edits = 0
    /\ calls = 0
    /\ validators = NoValidators
    /\ pre_resolve = ""
    /\ resolve_fn = DefaultResolve
    /\ trace = <<>>
    /\ outcome = NoOutcome
    /\ threads = NoThreads

\* Schema.add_type(type).
add_type(t) ==
    /\ edits < MaxEdits
    /\ type_map' = TMSet(type_map, heap[t].name, t)
    /\ edits' = edits + 1
    /\ UNCHANGED <<heap, graphql_schema, gql, last, calls, resolveVars, threads>>

\* `obj.fields[name] = field` on a root object, under a new name.
AttachField(o, f) ==
    /\ edits < MaxEdits
    /\ ~InSeq(f, heap[o].fields)
    /\ heap' = [heap EXCEPT ![o].fields = Append(@, f)]
    /\ edits' = edits + 1
    /\ UNCHANGED <<type_map, graphql_schema, gql, last, calls, resolveVars, threads>>

\* `node.type = value` on a Field, Argument or InputField.
SetType(n, r) ==
    /\ edits < MaxEdits
    /\ heap[n].type # r
    /\ heap' = [heap EXCEPT ![n].type = r]
    /\ edits' = edits + 1
    /\ UNCHANGED <<type_map, graphql_schema, gql, last, calls, resolveVars, threads>>

FindNodesDone(fn) ==
    /\ heap' = fn.heap
    /\ type_map' = fn.tm
    /\ last' = [NoCall EXCEPT !.op = "_find_nodes", !.ran = TRUE,
                             !.raised = fn.raised, !.seen = fn.seen,
                             !.expanded = fn.expanded, !.applied = fn.applied]

\* Schema._find_nodes() called directly.
find_nodes ==
    /\ calls < MaxCalls
    /\ FindNodesDone(FindNodes(heap, type_map))
    /\ calls' = calls + 1
    /\ UNCHANGED <<graphql_schema, gql, edits, resolveVars, threads>>

CompileDone(r) ==
    /\ heap' = r.heap
    /\ type_map' = r.tm
    /\ gql' = r.gql
    /\ graphql_schema' = r.schema
    /\ last' = r.call

\* to_graphql without `if self._graphql_schema is not None: return`.
to_graphql_uncached ==
    /\ calls < MaxCalls
    /\ CompileDone(Compile(heap, type_map, gql))
    /\ calls' = calls + 1
    /\ UNCHANGED <<edits, resolveVars, threads>>

\* Schema.to_graphql().
to_graphql ==
    /\ calls < MaxCalls
    /\ IF graphql_schema # 0
       THEN /\ last' = [NoCall EXCEPT !.op = "to_graphql", !.ret = graphql_schema]
            /\ UNCHANGED <<heap, type_map, graphql_schema, gql>>
       ELSE CompileDone(Compile(heap, type_map, gql))
    /\ calls' = calls + 1
    /\ UNCHANGED <<edits, resolveVars, threads>>

NextSchema ==
    \/ \E t \in AddableTypes : add_type(t)
    \/ \E a \in Attachable : AttachField(a[1], a[2])
    \/ \E n \in Retyped, r \in TypeChoices : SetType(n, r)
    \/ find_nodes
    \/ to_graphql

\* The schema as a module declares it before anything is compiled: the
\* field user of Query is attached, and User's field friend is typed
\* "[User!]!" or "Query".
InitDeclared ==
    /\ \E friend \in {InitHeap[FriendId].type, StrRef(QueryName)} :
         heap = [InitHeap EXCEPT ![QueryId].fields = <<UserFieldId>>,
                                 ![FriendId].type = friend]
    /\ gql = InitGql
    /\ \E a \in SUBSET AddableTypes :
         type_map = SchemaInit(SelectSeq(<<UserId, UserInputId, NodeId>>,
                                         LAMBDA x : x \in a))
    /\ graphql_schema = 0
    /\ last = NoCall
    /\ edits = 0
    /\ calls = 0
    /\ validators = NoValidators
    /\ pre_resolve = ""
    /\ resolve_fn = DefaultResolve
    /\ trace = <<>>
    /\ outcome = NoOutcome
    /\ threads = NoThreads

----------------------------------------------------------------------------
\* A field served by the executor

\* The registrations of validators and hooks, and the Field.resolve calls.
MaxRegs == 3
MaxResolves == 1

\* The schema whose Mutation has the field userCreate(input: UserInput!,
\* tags: [Int!]), after its graph was resolved.
ServedSchema ==
    FindNodes([InitHeap EXCEPT ![MutationId].fields = <<UserCreateId>>,
                               ![UserCreateId].args = <<InputArgId, TagsId>>],
              SchemaInit(<<UserInputId>>))

DataNodes == {UserCreateId, UserInputId}
ValueNodes == {InputArgId, AgeId, TagsId}

\* What user code puts in a validators list.
Entries(n) ==
    IF n \in DataNodes THEN {Fn(f) : f \in DataCallables}
    ELSE {Fn(f) : f \in ValueCallables}
         \cup {Group(<<Fn("reject_negative")>>), Group(<<Fn("reject_list")>>)}

\* The keyword arguments the executor passes, coerced to the argument types.
KwargsChoices ==
    { PyDict(<<InputKey, TagsKey>>,
             <<PyDict(<<AgeKey>>, <<PyInt(-1)>>), PyList(<<PyInt(1), PyInt(-2)>>)>>),
      PyDict(<<InputKey>>, <<PyDict(<<AgeKey>>, <<PyInt(5)>>)>>),
      PyDict(<<TagsKey>>, <<PyList(<<PyInt(-1), PyInt(2), PyInt(-3)>>)>>) }

InitResolve ==
    /\ heap = ServedSchema.heap
    /\ type_map = ServedSchema.tm
    /\ gql = InitGql
    /\ graphql_schema = 0
    /\ last = NoCall
    /\ edits = 0
    /\ calls = 0
    /\ validators = [n \in 1..Len(ServedSchema.heap) |-> <<>>]
    /\ pre_resolve = ""
    /\ resolve_fn = DefaultResolve
    /\ trace = <<>>
    /\ outcome = NoOutcome
    /\ threads = NoThreads

\* node.validator(f), or node.validators.append(entry).
validator(n, entry) ==
    /\ edits < MaxRegs
    /\ calls = 0
    /\ validators' = [validators EXCEPT ![n] = Append(@, entry)]
    /\ edits' = edits + 1
    /\ UNCHANGED <<schemaVars, calls, pre_resolve, resolve_fn, trace, outcome>>

\* Field.pre_resolver(f).
pre_resolver(f) ==
    /\ edits < MaxRegs
    /\ calls = 0
    /\ pre_resolve' = f
    /\ edits' = edits + 1
    /\ UNCHANGED <<schemaVars, calls, validators, resolve_fn, trace, outcome>>

\* Field.resolver(f).
resolver(f) ==
    /\ edits < MaxRegs
    /\ calls = 0
    /\ resolve_fn' = f
    /\ edits' = edits + 1
    /\ UNCHANGED <<schemaVars, calls, validators, pre_resolve, trace, outcome>>

ResolveDone(r, kwargs) ==
    /\ trace' = r.trace
    /\ outcome' = [r.outcome EXCEPT !.kwargs = kwargs]

\* Field.resolve(parent, info, **kwargs) of userCreate.
resolve(kwargs) ==
    /\ calls < MaxResolves
    /\ ResolveDone(Resolve([h |-> heap, v |-> validators], pre_resolve, resolve_fn,
                           UserCreateId, kwargs), kwargs)
    /\ calls' = calls + 1
    /\ UNCHANGED <<schemaVars, edits, validators, pre_resolve, resolve_fn>>

NextResolve ==
    \/ \E n \in DataNodes \cup ValueNodes : \E entry \in Entries(n) : validator(n, entry)
    \/ \E f \in ResolverCallables : pre_resolver(f)
    \/ \E f \in ResolverCallables : resolver(f)
    \/ \E kwargs \in KwargsChoices : resolve(kwargs)

----------------------------------------------------------------------------
\* The same field with a third argument, and validators of every shape

\* userCreate(input: UserInput!, tags: [Int!], grid: [[Int!]]).
ValidatedSchema ==
    FindNodes([InitHeap EXCEPT ![MutationId].fields = <<UserCreateId>>,
                               ![UserCreateId].args = <<InputArgId, TagsId, GridId>>],
              SchemaInit(<<UserInputId>>))

\* The heap of that schema, with `input` typed UserInput! or UserInput.
ValidatedHeaps ==
    {ValidatedSchema.heap,
     [ValidatedSchema.heap EXCEPT ![InputArgId].type = ObjRef(UserInputId)]}

ListNodes == {TagsId, GridId}

\* What user code puts in the validators list of each node: plain
\* validators, groups for the items of a list, groups of groups.
Declared(n) ==
    CASE n = InputArgId -> {Fn("reject_list"), Fn("reject_blank"), Fn("accept")}
      [] n = AgeId -> {Fn("reject_negative"), Fn("reject_empty")}
      [] n = TagsId ->
           {Fn("reject_list"), Group(<<Fn("reject_negative")>>),
            Group(<<Fn("reject_list")>>), Group(<<Fn("reject_blank")>>)}
      [] n = GridId ->
           {Group(<<Group(<<Fn("reject_negative")>>)>>),
            Group(<<Fn("accept"), Group(<<Fn("reject_list")>>)>>)}
      [] n = UserCreateId -> {Fn("reject_str"), Fn("reject_fields"), Fn("reject_nothing")}
      [] n = UserInputId -> {Fn("data_accept"), Fn("reject_fields"), Fn("reject_nothing")}

ValidatedKwargs ==
    { PyDict(<<InputKey, TagsKey, GridKey>>,
             <<PyDict(<<AgeKey>>, <<PyInt(-1)>>), PyList(<<PyInt(1), PyInt(-2)>>),
               PyList(<<PyList(<<PyInt(1), PyInt(-2)>>), PyList(<<PyInt(3)>>)>>)>>),
      PyDict(<<TagsKey>>, <<PyList(<<PyInt(-1), PyInt(2), PyInt(-3)>>)>>),
      PyDict(<<GridKey, InputKey>>,
             <<PyList(<<PyList(<<PyInt(-1)>>), PyList(<<PyInt(2), PyInt(-3)>>)>>),
               PyDict(<<AgeKey>>, <<PyInt(5)>>)>>) }

InitValidate ==
    /\ heap \in ValidatedHeaps
    /\ type_map = ValidatedSchema.tm
    /\ gql = InitGql
    /\ graphql_schema = 0
    /\ last = NoCall
    /\ edits = 0
    /\ calls = 0
    /\ validators = [n \in 1..Len(ValidatedSchema.heap) |-> <<>>]
    /\ pre_resolve = ""
    /\ resolve_fn = DefaultResolve
    /\ trace = <<>>
    /\ outcome = NoOutcome
    /\ threads = NoThreads

NextValidate ==
    \/ \E n \in DataNodes \cup ValueNodes \cup ListNodes :
          \E entry \in Declared(n) : validator(n, entry)
    \/ \E f \in {"allow", "deny"} : pre_resolver(f)
    \/ \E kwargs \in ValidatedKwargs : resolve(kwargs)

----------------------------------------------------------------------------
\* A field whose arguments are a list of input objects and a string

InputsId == 17
NameId == 18
StringId == 19
InputsKey == <<"i", "n", "p", "u", "t", "s">>
NameKey == <<"n", "a", "m", "e">>
StringName == <<"S", "t", "r", "i", "n", "g">>

\* userCreate(input: UserInput!, inputs: <ref>, name: String), the graph
\* resolved; String is the scalar object itself (scalars.String).
ShapedSchema(ref) ==
    FindNodes([(InitHeap \o
                << NewNode("Argument", InputsKey, StrRef(ref), <<>>, <<>>, <<>>, <<>>),
                   NewNode("Argument", NameKey, ObjRef(StringId), <<>>, <<>>, <<>>, <<>>),
                   NewNode("Scalar", StringName, None, <<>>, <<>>, <<>>, <<>>) >>)
                  EXCEPT ![MutationId].fields = <<UserCreateId>>,
                         ![UserCreateId].args = <<InputArgId, InputsId, NameId>>],
              SchemaInit(<<UserInputId>>))

\* inputs: [UserInput!]! or inputs: [UserInput].
ShapedRefs ==
    { <<"[">> \o UserInputName \o <<"!", "]", "!">>,
      <<"[">> \o UserInputName \o <<"]">> }

ShapedNodes == {UserCreateId, UserInputId, InputArgId, AgeId, InputsId, NameId}

\* Validators lists with and without groups, also on values that are not
\* lists.
Shaped(n) ==
    CASE n = InputsId ->
           {Fn("accept"), Fn("reject_list"), Group(<<>>), Group(<<Fn("reject_list")>>)}
      [] n = NameId -> {Fn("accept"), Group(<<Fn("accept")>>), Group(<<Fn("reject_list")>>)}
      [] n = InputArgId -> {Group(<<Fn("accept")>>)}
      [] n = AgeId -> {Fn("reject_negative"), Group(<<Fn("reject_list")>>)}
      [] n = UserInputId -> {Fn("data_accept"), Fn("reject_fields")}
      [] n = UserCreateId -> {Fn("reject_str")}

ShapedKwargs ==
    { PyDict(<<InputsKey>>,
             <<PyList(<<PyDict(<<AgeKey>>, <<PyInt(-1)>>),
                        PyDict(<<AgeKey>>, <<PyInt(2)>>)>>)>>),
      PyDict(<<NameKey, InputKey>>,
             <<PyStr(<<"a", "b">>), PyDict(<<AgeKey>>, <<PyInt(5)>>)>>),
      PyDict(<<InputsKey, NameKey>>,
             <<PyList(<<PyDict(<<AgeKey>>, <<PyInt(1)>>)>>), PyStr(<<"a">>)>>) }

InitShaped ==
    /\ \E ref \in ShapedRefs :
          /\ heap = ShapedSchema(ref).heap
          /\ type_map = ShapedSchema(ref).tm
          /\ validators = [n \in 1..Len(ShapedSchema(ref).heap) |-> <<>>]
    /\ gql = InitGql
    /\ graphql_schema = 0
    /\ last = NoCall
    /\ edits = 0
    /\ calls = 0
    /\ pre_resolve = ""
    /\ resolve_fn = DefaultResolve
    /\ trace = <<>>
    /\ outcome = NoOutcome
    /\ threads = NoThreads

NextShaped ==
    \/ \E n \in ShapedNodes : \E entry \in Shaped(n) : validator(n, entry)
    \/ \E f \in {"allow", "deny"} : pre_resolver(f)
    \/ \E kwargs \in ShapedKwargs : resolve(kwargs)

----------------------------------------------------------------------------
\* A field typed with any string

MaxTokens == 4
Tokens == {<<"[">>, <<"]">>, <<"!">>, UserName, IntName}

\* The strings made of at most n tokens, the empty one left out.
RECURSIVE TokenStrings(_)
TokenStrings(n) ==
    IF n = 0 THEN {}
    ELSE Tokens \cup TokenStrings(n - 1)
         \cup {t \o s : t \in Tokens, s \in TokenStrings(n - 1)}

\* Schema(types=[Object("User")]) with query.fields["user"] = Field(ref).
InitStrings ==
    /\ \E ref \in TokenStrings(MaxTokens) :
          heap = [InitHeap EXCEPT ![QueryId].fields = <<UserFieldId>>,
                                  ![UserId].fields = <<>>,
                                  ![UserId].interfaces = <<>>,
                                  ![UserFieldId].type = StrRef(ref)]
    /\ type_map = SchemaInit(<<UserId>>)
    /\ gql = InitGql
    /\ graphql_schema = 0
    /\ last = NoCall
    /\ edits = 0
    /\ calls = 0
    /\ validators = NoValidators
    /\ pre_resolve = ""
    /\ resolve_fn = DefaultResolve
    /\ trace = <<>>
    /\ outcome = NoOutcome
    /\ threads = NoThreads

NextStrings == find_nodes

----------------------------------------------------------------------------
\* Two threads that call Schema.to_graphql
\*
\* Nothing in to_graphql or _to_graphql takes a lock, so the interpreter may
\* switch threads between any two statements. A thread is followed from
\* statement to statement: pc is the statement it executes next, query and
\* mutation are its local variables, ret what its call returned.

MaxThreads == 2

Idle ==
    [pc |-> "idle", query |-> 0, mutation |-> 0, ret |-> 0, raised |-> "none",
     overlapped |-> FALSE]

\* Another thread is inside to_graphql.
OthersInside(t) ==
    \E u \in 1..Len(threads) : u # t /\ threads[u].pc \notin {"idle", "done"}

\* The schema of InitDeclared with Node given or not, and userCreate on
\* Mutation or not.
InitThreads ==
    /\ \E fields \in {<<>>, <<UserCreateId>>} :
          heap = [InitHeap EXCEPT ![QueryId].fields = <<UserFieldId>>,
                                  ![MutationId].fields = fields]
    /\ \E types \in {<<UserId, UserInputId, NodeId>>, <<UserId, UserInputId>>} :
          type_map = SchemaInit(types)
    /\ gql = InitGql
    /\ graphql_schema = 0
    /\ last = NoCall
    /\ edits = 0
    /\ calls = 0
    /\ validators = NoValidators
    /\ pre_resolve = ""
    /\ resolve_fn = DefaultResolve
    /\ trace = <<>>
    /\ outcome = NoOutcome
    /\ threads = [t \in 1..MaxThreads |-> Idle]

\* A call that never finds a schema cached.
CachedNever(schema) == FALSE

\* `if self._graphql_schema is not None`.
Cached(schema) == schema # 0

\* `if self._graphql_schema is not None: return self._graphql_schema`.
thread_call(t) ==
    /\ threads[t].pc = "idle"
    /\ threads' =
          [threads EXCEPT ![t] =
              IF Cached(graphql_schema)
              THEN [@ EXCEPT !.pc = "done", !.ret = graphql_schema,
                             !.overlapped = OthersInside(t)]
              ELSE [@ EXCEPT !.pc = "find", !.overlapped = OthersInside(t)]]
    /\ UNCHANGED <<heap, type_map, graphql_schema, gql, last, edits, calls, resolveVars>>

ThreadFound(t, fn) ==
    /\ heap' = fn.heap
    /\ type_map' = fn.tm
    /\ threads' =
          [threads EXCEPT ![t] =
              IF fn.raised # "none" THEN [@ EXCEPT !.pc = "done", !.raised = fn.raised]
              ELSE IF Unmapped(fn.tm) # <<>>
              THEN [@ EXCEPT !.pc = "done", !.raised = "KeyError"]
              ELSE [@ EXCEPT !.pc = "query"]]

\* `self._find_nodes()`, `unmapped = sorted(...)`, `if unmapped: raise`.
thread_find(t) ==
    /\ threads[t].pc = "find"
    /\ ThreadFound(t, FindNodes(heap, type_map))
    /\ UNCHANGED <<graphql_schema, gql, last, edits, calls, resolveVars>>

\* `if self.query.fields: query = self.query._to_graphql()` up to the test
\* `if self._graphql_node is None` of _to_graphql; the same for mutation.
thread_root(t, root, var, next) ==
    /\ threads[t].pc = var
    /\ IF heap[root].fields = <<>>
       THEN /\ threads' = [threads EXCEPT ![t].pc = next]
            /\ UNCHANGED heap
       ELSE IF heap[root].graphql_node # 0
       THEN /\ threads' = [threads EXCEPT ![t].pc = next,
                                          ![t][var] = heap[root].graphql_node]
            /\ heap' = [heap EXCEPT ![root].n_call = @ + 1]
       ELSE /\ threads' = [threads EXCEPT ![t].pc = var \o "_make"]
            /\ heap' = [heap EXCEPT ![root].n_start = @ + 1]
    /\ UNCHANGED <<type_map, graphql_schema, gql, last, edits, calls, resolveVars>>

ThreadMade(t, root, var, next, c) ==
    /\ heap' = c.heap
    /\ gql' = c.gql
    /\ threads' = [threads EXCEPT ![t].pc = next,
                                  ![t][var] = c.heap[root].graphql_node]

\* `self._graphql_node = self._make_graphql_node()`, `return
\* self._graphql_node` of the root the thread found without a compiled form.
thread_make(t, root, var, next) ==
    /\ threads[t].pc = var \o "_make"
    /\ ThreadMade(t, root, var, next,
                  MakeGraphqlNode([heap |-> heap, gql |-> gql,
                                   stack |-> <<Frame(root, "", 0)>>, work |-> <<>>,
                                   visited |-> {}, raised |-> "none", made |-> <<>>]))
    /\ UNCHANGED <<type_map, graphql_schema, last, edits, calls, resolveVars>>

ThreadCompiled(t, r) ==
    /\ heap' = r.heap
    /\ gql' = r.gql
    /\ graphql_schema' = IF r.schema # 0 THEN r.schema ELSE graphql_schema
    /\ threads' = [threads EXCEPT ![t].pc = "done", ![t].ret = r.schema,
                                  ![t].raised = r.call.raised]

\* `self._graphql_schema = schema = graphql.GraphQLSchema(...)`,
\* `return schema`.
thread_schema(t) ==
    /\ threads[t].pc = "schema"
    /\ ThreadCompiled(t, CompileCollect([tm |-> type_map], NoCall,
                                        [heap |-> heap, gql |-> gql, stack |-> <<>>,
                                         work |-> <<>>, visited |-> {},
                                         raised |-> "none", made |-> <<>>],
                                        threads[t].query, threads[t].mutation))
    /\ UNCHANGED <<type_map, last, edits, calls, resolveVars>>

NextThreads ==
    \E t \in 1..MaxThreads :
        \/ thread_call(t)
        \/ thread_find(t)
        \/ thread_root(t, QueryId, "query", "mutation")
        \/ thread_make(t, QueryId, "query", "mutation")
        \/ thread_root(t, MutationId, "mutation", "schema")
        \/ thread_make(t, MutationId, "mutation", "schema")
        \/ thread_schema(t)

----------------------------------------------------------------------------
\* One node that holds a reference written with markers

MaxWrap == 3
WrapId == 5

\* The sequences of at most n wrappers, outermost first, with no NonNull
\* directly inside a NonNull.
RECURSIVE WrapperSeqs(_)
WrapperSeqs(n) ==
    IF n = 0 THEN {<<>>}
    ELSE WrapperSeqs(n - 1)
         \cup {<<"List">> \o w : w \in {v \in WrapperSeqs(n - 1) : Len(v) = n - 1}}
         \cup {<<"NonNull">> \o w :
                   w \in {v \in WrapperSeqs(n - 1) :
                             Len(v) = n - 1 /\ (v # <<>> => Head(v) # "NonNull")}}

RECURSIVE Written(_, _)
\* The reference as user code writes it: `!` after what is non-null,
\* `[` and `]` around the item type of a list.
Written(name, w) ==
    IF w = <<>> THEN name
    ELSE IF Head(w) = "NonNull" THEN Written(name, Tail(w)) \o <<"!">>
    ELSE <<"[">> \o Written(name, Tail(w)) \o <<"]">>

\* Schema(types=[Object("User")]) after the first pass of _find_nodes, and
\* a Field, Argument or InputField typed with the reference.
WrapHeap(kind, ref) ==
    << InitHeap[QueryId], InitHeap[MutationId], InitHeap[IntId],
       NewNode("Object", UserName, None, <<>>, <<>>, <<>>, <<>>),
       NewNode(kind, IF kind = "Field" THEN <<>> ELSE AgeKey, ref,
               <<>>, <<>>, <<>>, <<>>) >>

InitWrap ==
    /\ \E kind \in {"Field", "Argument", "InputField"}, name \in {UserName, IntName},
          w \in WrapperSeqs(MaxWrap) :
            heap = WrapHeap(kind, StrRef(Written(name, w)))
    /\ type_map = SchemaInit(<<UserId>>)
    /\ gql = InitGql
    /\ graphql_schema = 0
    /\ last = NoCall
    /\ edits = 0
    /\ calls = 0
    /\ validators = NoValidators
    /\ pre_resolve = ""
    /\ resolve_fn = DefaultResolve
    /\ trace = <<>>
    /\ outcome = NoOutcome
    /\ threads = NoThreads

ApplyTypesDone(r, ref) ==
    /\ heap' = r.heap
    /\ last' = [NoCall EXCEPT !.op = "_apply_types", !.raised = r.raised,
                             !.names = <<ref.s>>]

\* node._apply_types(type_map) of a node that holds a string; the record of
\* the call keeps the string as names.
apply_types(n) ==
    /\ IsStr(heap[n].type)
    /\ ApplyTypesDone(ApplyTypes(heap, n, type_map), heap[n].type)
    /\ UNCHANGED <<type_map, graphql_schema, gql, edits, calls, resolveVars, threads>>

ToGraphqlDone(c) ==
    /\ heap' = c.heap
    /\ gql' = c.gql
    /\ last' = [last EXCEPT !.op = "_to_graphql", !.raised = c.raised, !.made = c.made]

\* node._to_graphql() of a node whose type is resolved.
to_graphql_node(n) ==
    /\ IsObj(heap[n].type)
    /\ heap[n].graphql_node = 0
    /\ ToGraphqlDone(CallToGraphql([heap |-> heap, gql |-> gql, stack |-> <<>>,
                                    work |-> <<>>, visited |-> {}, raised |-> "none",
                                    made |-> <<>>], n))
    /\ UNCHANGED <<type_map, graphql_schema, edits, calls, resolveVars, threads>>

NextWrap ==
    \/ apply_types(WrapId)
    \/ to_graphql_node(WrapId)

Init == InitSchema
Next == NextSchema
vars == <<schemaVars, edits, calls, resolveVars>>
Spec == Init /\ [][Next]_vars
SpecDeclared == InitDeclared /\ [][NextSchema]_vars
SpecResolve == InitResolve /\ [][NextResolve]_vars
SpecWrap == InitWrap /\ [][NextWrap]_vars
SpecThreads == InitThreads /\ [][NextThreads]_vars
SpecStrings == InitStrings /\ [][NextStrings]_vars
SpecShaped == InitShaped /\ [][NextShaped]_vars
SpecValidate == InitValidate /\ [][NextValidate]_vars

----------------------------------------------------------------------------
\* The graph, as the claims speak of it

Range(seq) == {seq[i] : i \in 1..Len(seq)}

RECURSIVE ReachFrom(_, _, _)
ReachFrom(h, frontier, acc) ==
    IF frontier = {} THEN acc
    ELSE LET n == CHOOSE x \in frontier : TRUE
             kids == {r.o : r \in Range(FindNodesOf(h, n))} \ {0}
         IN ReachFrom(h, (frontier \cup kids) \ (acc \cup {n}), acc \cup {n})

\* The nodes of the reachable graph: what the values of type_map and the two
\* roots lead to through object references.
Reach(h, tm) ==
    ReachFrom(h, (Range(TMValues(tm)) \ {0}) \cup {QueryId, MutationId}, {})

\* The type references a node holds: a Field's, Argument's, InputField's or
\* wrapper's type, an object's interface list, a union's member list.
TypeRefs(h, n) ==
    CASE h[n].kind \in {"Object", "Interface"} -> h[n].interfaces
      [] h[n].kind = "Union" -> h[n].types
      [] h[n].kind \in {"Field", "Argument", "InputField"} \cup WrappingKinds -> <<h[n].type>>
      [] OTHER -> <<>>

\* The string references of the reachable graph, as <<node, index>>.
StringRefs(h, tm) ==
    {p \in Reach(h, tm) \X (1..3) :
        p[2] <= Len(TypeRefs(h, p[1])) /\ IsStr(TypeRefs(h, p[1])[p[2]])}

BareOf(h, p) == Strip(TypeRefs(h, p[1])[p[2]].s).bare

\* The named types of the reachable graph that carry a name.
Carrying(h, tm, name) ==
    {d \in Reach(h, tm) : IsNamedType(h[d]) /\ h[d].name = name}

RECURSIVE Matches(_, _, _, _)
\* ref is wrappers (outermost first) around the object d.
Matches(h, ref, wrappers, d) ==
    IF wrappers = <<>> THEN ref = ObjRef(d)
    ELSE /\ IsObj(ref)
         /\ h[ref.o].kind = Head(wrappers)
         /\ Matches(h, h[ref.o].type, Tail(wrappers), d)

\* A step in which _find_nodes ran to its end.
FindNodesStep ==
    /\ calls' = calls + 1
    /\ last'.ran
    /\ last'.raised \in {"none", "KeyError", "AttributeError"}

\* A step that is a to_graphql call.
ToGraphqlStep == calls' = calls + 1 /\ last'.op = "to_graphql"

----------------------------------------------------------------------------
\* C1: after _find_nodes, every string reference of the reachable graph
\* whose bare name is carried by a named type other than the two roots (in
\* type_map or anywhere in the graph) holds that type object, under the
\* wrappers its markers name; all references to a name hold one object.
C1_ReferencesResolved ==
    [][FindNodesStep =>
        \A p \in StringRefs(heap, type_map) :
            LET defs == Carrying(heap, type_map, BareOf(heap, p)) \ {QueryId, MutationId}
            IN defs # {} =>
                \E d \in defs :
                    \A r \in StringRefs(heap, type_map) :
                        BareOf(heap, r) = BareOf(heap, p) =>
                            Matches(heap', TypeRefs(heap', r[1])[r[2]],
                                    Strip(TypeRefs(heap, r[1])[r[2]].s).wrappers, d)
      ]_vars

\* _find_nodes met the string "User" before it met the object User, which
\* only the graph defines, and the field that held the string holds User.
C1_Witness ==
    /\ last.op = "_find_nodes"
    /\ InSeq(StrRef(UserName), last.seen)
    /\ InSeq(ObjRef(UserId), last.seen)
    /\ Position(last.seen, StrRef(UserName)) < Position(last.seen, ObjRef(UserId))
    /\ heap[UserFieldId].type = ObjRef(UserId)
    /\ Matches(heap, heap[FriendId].type, <<"NonNull", "List", "NonNull">>, UserId)

\* The names the reachable graph references and no named type carries.
Undefined(h, tm) ==
    {BareOf(h, p) : p \in {r \in StringRefs(h, tm) : Carrying(h, tm, BareOf(h, r)) = {}}}

StrictlySorted(names) ==
    \A i \in 1..(Len(names) - 1) : LessStr(names[i], names[i + 1])

\* C2: when the reachable graph references names that have no definition, a
\* to_graphql call that gets to compile (no schema is cached) raises one
\* KeyError whose message lists every undefined bare name once, in sorted
\* order.
C2_UndefinedBatched ==
    [][(ToGraphqlStep /\ graphql_schema = 0 /\ Undefined(heap, type_map) # {}) =>
        /\ last'.raised = "KeyError"
        /\ Undefined(heap, type_map) \subseteq Range(last'.names)
        /\ StrictlySorted(last'.names)
        /\ graphql_schema' = 0
      ]_vars

\* Three undefined names, found in another order than the sorted one.
C2_Witness ==
    /\ last.op = "to_graphql"
    /\ last.raised = "KeyError"
    /\ last.names = <<NodeName, RankName, UserInputName>>
    /\ Position(TMKeys(type_map), UserInputName) < Position(TMKeys(type_map), RankName)

\* C3: whenever graph resolution ends with no None entry in type_map, no
\* reachable node holds a string as a type.
C3_NoStringLeft ==
    [][(FindNodesStep /\ ~InSeq(0, TMValues(type_map'))) =>
        StringRefs(heap', type_map') = {}
      ]_vars

\* C4: once to_graphql has returned a schema, every later call returns that
\* object and changes nothing: no traversal, no conversion.
C4_CompiledOnce ==
    [][/\ graphql_schema # 0 => graphql_schema' = graphql_schema
       /\ (ToGraphqlStep /\ graphql_schema # 0) =>
            /\ last'.ret = graphql_schema
            /\ last'.raised = "none"
            /\ ~last'.ran
            /\ last'.made = <<>>
            /\ heap' = heap /\ type_map' = type_map /\ gql' = gql
      ]_vars

\* A call answered from the cache although a field of Query was given an
\* undefined type after the schema was compiled.
C4_Witness ==
    /\ last.op = "to_graphql" /\ ~last.ran /\ last.ret = graphql_schema
    /\ graphql_schema # 0
    /\ InSeq(UserFieldId, heap[QueryId].fields)
    /\ heap[UserFieldId].type = StrRef(RankName \o <<"!">>)

\* C5: all _to_graphql calls of a node return one object, and
\* _make_graphql_node is executed at most once for the node.
C5_BuiltOnce ==
    \A n \in 1..Len(heap) :
        /\ Cardinality(heap[n].rets) <= 1
        /\ heap[n].n_start <= 1

RECURSIVE GqlReachFrom(_, _, _)
GqlReachFrom(g, frontier, acc) ==
    IF frontier = {} THEN acc
    ELSE LET c == CHOOSE x \in frontier : TRUE
             next == (Range(g[c].of) \cup Range(g[c].fields) \cup Range(g[c].interfaces)) \ {0}
         IN GqlReachFrom(g, (frontier \cup next) \ (acc \cup {c}), acc \cup {c})

\* The compiled objects that the compiled object c leads to.
GqlReach(g, c) ==
    GqlReachFrom(g, (Range(g[c].of) \cup Range(g[c].fields) \cup Range(g[c].interfaces)) \ {0}, {})

\* C6: compiling a graph with a cycle ends, and the compiled type met again
\* through the cycle is the compiled object of the containing type.
C6_CycleSafe ==
    /\ last.raised # "diverged"
    /\ \A c \in 1..Len(gql) :
          gql[c].kind \in {"Object", "Interface", "InputObject"} =>
              \A d \in GqlReach(gql, c) : gql[d].node = gql[c].node => d = c

\* User compiled with its field friend of type [User!]!, and the compiled
\* User reached from itself.
C6_Witness ==
    /\ graphql_schema # 0
    /\ heap[UserId].graphql_node # 0
    /\ heap[FriendId].graphql_node # 0
    /\ Matches(heap, heap[FriendId].type, <<"NonNull", "List", "NonNull">>, UserId)
    /\ heap[UserId].graphql_node \in GqlReach(gql, heap[UserId].graphql_node)

----------------------------------------------------------------------------
\* The last Field.resolve, as the claims speak of it

Resolved == outcome.kind # "none"
Env == [h |-> heap, v |-> validators]
PreCall == Called(pre_resolve, "pre", UserCreateId, outcome.kwargs)
ResolverCall == Called(resolve_fn, "resolver", UserCreateId, outcome.kwargs)
\* No pre-hook is set, or the one set returned.
HookPassed == pre_resolve = "" \/ Behaviour(pre_resolve, outcome.kwargs).exc = "none"
\* Argument validation of the keyword arguments, on its own.
Validation == Validate(Env, UserCreateId, outcome.kwargs, <<>>)
Roles == {trace[i].role : i \in 1..Len(trace)}
\* What the call trace[i] did.
Did(i) == Behaviour(trace[i].fn, trace[i].value)

\* C7: resolve calls the pre-hook if one is set, then argument validation,
\* then the user resolver; after a pre-hook that raised no validator is
\* called; the resolver is called only when hook and validation both went
\* through, and what it returns is what resolve returns.
C7_ResolveOrder ==
    Resolved =>
        /\ trace = (IF pre_resolve = "" THEN <<>> ELSE <<PreCall>>)
                   \o (IF HookPassed THEN Validation.trace ELSE <<>>)
                   \o (IF HookPassed /\ Validation.exc = "none"
                       THEN <<ResolverCall>> ELSE <<>>)
        /\ (pre_resolve # "" /\ ~HookPassed) => Roles = {"pre"}
        /\ outcome.kind = "return" <=>
              /\ "resolver" \in Roles
              /\ Behaviour(resolve_fn, outcome.kwargs).exc = "none"
        /\ outcome.kind = "return" =>
              outcome.ret = Behaviour(resolve_fn, outcome.kwargs).ret

\* The pre-hook, a value validator, a data validator and the resolver were
\* called, in this order, and resolve returned the resolver's value.
C7_Witness ==
    /\ outcome.kind = "return"
    /\ Len(trace) >= 4
    /\ trace[1].role = "pre"
    /\ trace[2].role = "value"
    /\ trace[Len(trace) - 1].role = "data"
    /\ trace[Len(trace)].role = "resolver"
    /\ outcome.ret = PyStr(<<"a", "t", "t", "r">>)

\* The ValidationError that leaves the pre-hook, validation or the resolver,
\* whichever comes first: its message.
Failure ==
    IF pre_resolve # "" /\ ~HookPassed THEN Behaviour(pre_resolve, outcome.kwargs)
    ELSE IF Validation.exc # "none" THEN Validation
    ELSE Behaviour(resolve_fn, outcome.kwargs)

\* C8: a ValidationError raised in resolve leaves it as the GraphQLError
\* 'magql argument validation' whose extensions are a mapping: {"": [m]} for
\* a str m, {"": l} for a list l, the mapping itself for a mapping; no
\* ValidationError leaves resolve.
C8_ErrorNormalized ==
    Resolved =>
        /\ outcome.kind # "ValidationError"
        /\ Failure.exc = "ValidationError" =>
              /\ outcome.kind = "GraphQLError"
              /\ outcome.message = "magql argument validation"
              /\ outcome.error = Failure.message
              /\ outcome.extensions.t = "dict"
              /\ Failure.message.t = "str" =>
                    outcome.extensions = PyDict(<< <<>> >>, <<PyList(<<Failure.message>>)>>)
              /\ Failure.message.t = "list" =>
                    outcome.extensions = PyDict(<< <<>> >>, <<Failure.message>>)
              /\ Failure.message.t = "dict" => outcome.extensions = Failure.message

\* The resolver raised a ValidationError with a list, after validation went
\* through: the error has the list under "".
C8_Witness ==
    /\ outcome.kind = "GraphQLError"
    /\ trace # <<>> /\ trace[Len(trace)].role = "resolver"
    /\ "data" \in Roles
    /\ outcome.error.t = "list"
    /\ outcome.extensions.keys = << <<>> >>
    /\ outcome.extensions.l = <<outcome.error>>

\* C9: an exception other than ValidationError raised by the pre-hook, a
\* validator or the resolver leaves resolve as it is: nothing is called
\* after it and it does not become the 'magql argument validation' error.
C9_OtherExceptionsPass ==
    Resolved =>
        \A i \in 1..Len(trace) :
            Did(i).exc \notin {"none", "ValidationError"} =>
                /\ i = Len(trace)
                /\ outcome.kind = Did(i).exc
                /\ outcome.message # "magql argument validation"

\* A value validator raised RuntimeError after another validator had failed
\* with a ValidationError, and RuntimeError left resolve.
C9_Witness ==
    /\ outcome.kind = "RuntimeError"
    /\ Len(trace) >= 2
    /\ trace[Len(trace)].role = "value"
    /\ \E i \in 1..(Len(trace) - 1) : Did(i).exc = "ValidationError"

RECURSIVE Concat(_)
Concat(seqs) == IF seqs = <<>> THEN <<>> ELSE Head(seqs) \o Concat(Tail(seqs))

\* A message as the entries it adds to a list: a list extends, anything
\* else is appended.
AsEntries(message) == IF message.t = "list" THEN message.l ELSE <<message>>

\* What the data validator f files under the key k when it is called on data.
Filed(f, data, k) ==
    LET b == Behaviour(f, data) IN
    IF b.exc # "ValidationError" THEN <<>>
    ELSE IF b.message.t = "dict"
    THEN (IF DictHas(b.message, k) THEN AsEntries(DictGet(b.message, k)) ELSE <<>>)
    ELSE IF k = <<>> THEN AsEntries(b.message) ELSE <<>>

\* The messages of the item of node n that has the key k, validated alone.
ItemMessages(n, data, k) ==
    LET items == ItemsToValidate(heap, n)
        at == {i \in 1..Len(items) : heap[items[i]].name = k}
    IN IF at = {} \/ ~DictHas(data, k) THEN <<>>
       ELSE LET item == items[CHOOSE i \in at : TRUE]
                r == ValidateValue(Env, heap[item].type, validators[item],
                                   DictGet(data, k), data, item, <<>>)
            IN IF r.exc = "ValidationError" THEN r.message.l ELSE <<>>

\* errors[k] as the claim has it: the item's messages, then what each
\* failing data validator of n filed under k, in declared order.
Merged(n, data, k) ==
    ItemMessages(n, data, k)
    \o Concat([i \in 1..Len(validators[n]) |-> Filed(validators[n][i].f, data, k)])

ErrorKeys == {<<>>, InputKey, AgeKey, TagsKey}

\* errors is what validate of node n raised on data.
MergedAll(n, data, errors) ==
    /\ \A k \in ErrorKeys :
          /\ DictHas(errors, k) => DictGet(errors, k) = PyList(Merged(n, data, k))
          /\ Merged(n, data, k) # <<>> => DictHas(errors, k)
    /\ \A i \in 1..Len(errors.keys) : errors.keys[i] \in ErrorKeys

\* Validation of the arguments failed with a ValidationError.
ValidationFailed ==
    /\ outcome.kind = "GraphQLError"
    /\ trace # <<>> /\ trace[Len(trace)].role \in {"value", "data"}

\* The errors the InputObject raised on the argument `input`, if it did.
InputErrors == DictGet(outcome.error, InputKey).l[1]
InputFailed ==
    /\ ValidationFailed
    /\ DictHas(outcome.error, InputKey)
    /\ DictGet(outcome.error, InputKey).l # <<>>
    /\ InputErrors.t = "dict"

\* C10: in data validation of a Field's arguments or an InputObject's
\* fields, errors[k] is the item's messages followed by what every failing
\* data validator filed under k, in declared order (a list extends, a scalar
\* appends); str and list messages of data validators go under "".
C10_MessagesMerged ==
    /\ ValidationFailed => MergedAll(UserCreateId, outcome.kwargs, outcome.error)
    /\ InputFailed =>
          MergedAll(UserInputId, DictGet(outcome.kwargs, InputKey), InputErrors)

\* The argument `input` failed its own validator with two messages, and two
\* data validators of the field filed under `input`, one a list, one a str:
\* five messages, in that order; and a data validator filed a str under "".
C10_Witness ==
    /\ ValidationFailed
    /\ DictHas(outcome.error, InputKey)
    /\ DictGet(outcome.error, InputKey) =
          PyList(<<Msg("v", "2"), Msg("v", "3"), Msg("d", "1"), Msg("d", "2"),
                   Msg("d", "6")>>)
    /\ DictGet(outcome.error, <<>>) = PyList(<<Msg("d", "4")>>)

\* The InputObject's field `age` failed its validator and a data validator
\* of the InputObject filed a str under `age`.
C10_WitnessInput ==
    /\ InputFailed
    /\ DictHas(InputErrors, AgeKey)
    /\ DictGet(InputErrors, AgeKey) = PyList(<<Msg("v", "1"), Msg("d", "3")>>)

----------------------------------------------------------------------------
\* The error list of a list argument, as the claims speak of it

\* What a validator that was called adds to an error list.
Messages(b) == IF b.exc = "ValidationError" THEN AsEntries(b.message) ELSE <<>>

\* What an item adds to the list of its group: null if it passed, else
\* with `aligned` one entry (its message, or the list of its messages),
\* without it each of its messages.
ItemPart(aligned, e) ==
    IF e = <<>> THEN <<PyNone>>
    ELSE IF ~aligned THEN e
    ELSE IF Len(e) = 1 THEN e ELSE <<PyList(e)>>

\* What a group adds to the error list: its list, if any entry is truthy.
GroupPart(list) == IF AnyTruthy(list) THEN <<PyList(list)>> ELSE <<>>

RECURSIVE Expected(_, _, _)
\* The error list of the validators vs on a value of a scalar or list type:
\* entry by entry, a plain validator's messages, a group's list.
Expected(aligned, vs, value) ==
    Concat([i \in 1..Len(vs) |->
        IF IsGroup(vs[i])
        THEN GroupPart(Concat([j \in 1..Len(value.l) |->
                ItemPart(aligned, Expected(aligned, vs[i].group, value.l[j]))]))
        ELSE Messages(Behaviour(vs[i].f, value))])

\* errors[key] of the argument validation, <<>> if there is none.
ErrorsOf(key) ==
    IF ValidationFailed /\ DictHas(outcome.error, key)
    THEN DictGet(outcome.error, key).l ELSE <<>>

\* Argument validation ran on the list arguments the call passed.
ListsValidated(aligned) ==
    (Resolved /\ HookPassed) =>
        \A n \in ListNodes :
            DictHas(outcome.kwargs, heap[n].name) =>
                ErrorsOf(heap[n].name) =
                    Expected(aligned, validators[n], DictGet(outcome.kwargs, heap[n].name))

\* C11 (as first stated): the list a group produces has the length of the
\* input list, null where the item passed and the item's message where it
\* failed.
C11_Aligned == ListsValidated(TRUE)

\* C11: the list a group produces is, item by item in the order of the
\* input, null for an item that passed and every message of an item that
\* failed (a nested group's list being one message); it has the length of
\* the input when every failing item has one message.
C11_PerItemMessages == ListsValidated(FALSE)

\* Both items of tags failed with two messages each: four entries for two
\* items; and of the two rows of grid the first failed the inner group in
\* its second item.
C11_Witness ==
    /\ ValidationFailed
    /\ DictHas(outcome.kwargs, TagsKey)
    /\ DictGet(outcome.kwargs, TagsKey) = PyList(<<PyInt(1), PyInt(-2)>>)
    /\ ErrorsOf(TagsKey) =
          <<PyList(<<Msg("v", "2"), Msg("v", "3"), Msg("v", "2"), Msg("v", "3")>>)>>
    /\ ErrorsOf(GridKey) =
          <<PyList(<<PyList(<<PyNone, Msg("v", "1")>>), PyNone>>)>>

----------------------------------------------------------------------------
\* The calls of argument validation, as the claims speak of them

\* The calls after the pre-hook's.
Validating == IF pre_resolve = "" THEN trace ELSE Tail(trace)

\* Validation ran and nothing but ValidationError was raised in it.
Validated == Resolved /\ HookPassed /\ Validation.exc \in {"none", "ValidationError"}

Prefix(a, b) == Len(a) <= Len(b) /\ SubSeq(b, 1, Len(a)) = a

\* The plain validators of node n, in declared order.
Plain(n) == SelectSeq(validators[n], LAMBDA entry : ~IsGroup(entry))

\* The calls of the plain validators of n on value, in declared order.
PlainCalls(n, value) ==
    [i \in 1..Len(Plain(n)) |-> Called(Plain(n)[i].f, "value", n, value)]

\* The messages of the plain validators of n that fail on value, in
\* declared order.
PlainMessages(n, value) ==
    Concat([i \in 1..Len(Plain(n)) |-> Messages(Behaviour(Plain(n)[i].f, value))])

\* The calls of the data validators of n on data, in declared order.
DataCalls(n, data) ==
    [i \in 1..Len(validators[n]) |-> Called(validators[n][i].f, "data", n, data)]

\* The value of the key k of the keyword arguments, or of the argument
\* `input` inside them.
Arg(k) == DictGet(outcome.kwargs, k)
HasArg(k) == DictHas(outcome.kwargs, k)
HasAge == HasArg(InputKey) /\ DictHas(Arg(InputKey), AgeKey)
Age == DictGet(Arg(InputKey), AgeKey)

\* The calls the InputObject's own validation makes on the argument
\* `input`: its field's validators, then its data validators.
InputCalls ==
    (IF HasAge THEN PlainCalls(AgeId, Age) ELSE <<>>)
    \o DataCalls(UserInputId, Arg(InputKey))

\* The InputObject's own validation of the argument `input`.
InputValidation == Validate(Env, UserInputId, Arg(InputKey), <<>>)

\* C12: for an Argument whose type is an InputObject, directly or inside a
\* NonNull, validation first runs the InputObject's validation on the value
\* (the validators of its fields, then its data validators), then the
\* argument's own validators; the InputObject's mapping, if it failed, is the
\* first entry of the argument's errors and the messages of the argument's
\* validators follow it.
C12_InputObjectFirst ==
    (Validated /\ HasArg(InputKey)) =>
        /\ Prefix(InputCalls \o PlainCalls(InputArgId, Arg(InputKey)), Validating)
        /\ InputValidation.trace = InputCalls
        /\ InputValidation.exc = "ValidationError" => InputValidation.message.t = "dict"
        /\ Prefix((IF InputValidation.exc = "ValidationError"
                   THEN <<InputValidation.message>> ELSE <<>>)
                  \o PlainMessages(InputArgId, Arg(InputKey)),
                  ErrorsOf(InputKey))

\* `input` is typed UserInput with no NonNull; its field failed, a data
\* validator of UserInput failed and a validator of the argument failed
\* with two messages: the mapping comes first, the two messages follow.
C12_Witness ==
    /\ ValidationFailed
    /\ heap[InputArgId].type = ObjRef(UserInputId)
    /\ Len(trace) >= 3
    /\ trace[1].node = AgeId /\ trace[2].node = UserInputId /\ trace[3].node = InputArgId
    /\ Len(ErrorsOf(InputKey)) = 3
    /\ ErrorsOf(InputKey)[1].t = "dict"
    /\ DictGet(ErrorsOf(InputKey)[1], AgeKey) = PyList(<<Msg("v", "1"), Msg("d", "3")>>)
    /\ SubSeq(ErrorsOf(InputKey), 2, 3) = <<Msg("v", "2"), Msg("v", "3")>>

\* The calls made for node n on value, as plain validators.
CallsOn(n, value) ==
    SelectSeq(trace, LAMBDA c : c.role = "value" /\ c.node = n /\ c.value = value)

\* The errors the InputObject filed under `age`, <<>> if there are none.
AgeErrors ==
    IF InputFailed /\ DictHas(InputErrors, AgeKey)
    THEN DictGet(InputErrors, AgeKey).l ELSE <<>>

\* C13: every plain validator of an Argument or InputField is called on the
\* value, in declared order, also after one of them failed, and the item's
\* errors are their messages in that order: each element of a list message,
\* a str message as one element.
C13_AllPlainCalled ==
    Validated =>
        /\ \A n \in {InputArgId} \cup ListNodes :
              HasArg(heap[n].name) =>
                  CallsOn(n, Arg(heap[n].name)) = PlainCalls(n, Arg(heap[n].name))
        /\ HasAge =>
              /\ CallsOn(AgeId, Age) = PlainCalls(AgeId, Age)
              /\ Prefix(PlainMessages(AgeId, Age), AgeErrors)
        /\ \A n \in ListNodes :
              (HasArg(heap[n].name) /\ Plain(n) = validators[n]) =>
                  ErrorsOf(heap[n].name) = PlainMessages(n, Arg(heap[n].name))

\* Three validators of `input` were called in declared order, the first
\* failed with a list of two, the second passed, the third failed with the
\* empty str: three messages.
C13_Witness ==
    /\ ValidationFailed
    /\ validators[InputArgId] = <<Fn("reject_list"), Fn("accept"), Fn("reject_blank")>>
    /\ Len(trace) = 3
    /\ \A i \in 1..3 : trace[i].fn = validators[InputArgId][i].f
    /\ ErrorsOf(InputKey) = <<Msg("v", "2"), Msg("v", "3"), PyStr(<<>>)>>

\* The calls that validating the argument n alone makes.
ArgCalls(n) ==
    ValidateValue(Env, heap[n].type, validators[n], Arg(heap[n].name),
                  outcome.kwargs, n, <<>>).trace

\* The calls of the field's validation: each argument the call passed, in
\* declared order, then the field's data validators.
FieldCalls ==
    Concat([i \in 1..Len(heap[UserCreateId].args) |->
        IF HasArg(heap[heap[UserCreateId].args[i]].name)
        THEN ArgCalls(heap[UserCreateId].args[i]) ELSE <<>>])
    \o DataCalls(UserCreateId, outcome.kwargs)

\* C19: data validation validates every item whose name is in the data, in
\* declared order, and skips the others; then it calls every data validator
\* of the node once, in declared order; a failure of an item or of a data
\* validator stops neither, and no data validator is called before the last
\* item was validated. So for the field and for the InputObject of `input`.
C19_NoFailFast ==
    Validated =>
        /\ Validating = FieldCalls \o (IF Validation.exc = "none"
                                       THEN <<ResolverCall>> ELSE <<>>)
        /\ \A n \in {InputArgId} \cup ListNodes :
              ~HasArg(heap[n].name) => \A i \in 1..Len(trace) : trace[i].node # n
        /\ HasArg(InputKey) =>
              /\ ArgCalls(InputArgId) = InputCalls \o PlainCalls(InputArgId, Arg(InputKey))
              /\ ~HasAge => \A i \in 1..Len(trace) : trace[i].node # AgeId

\* The argument `input` failed, the first data validator of the field
\* failed, and the second was still called; `tags` was not passed.
C19_Witness ==
    /\ ValidationFailed
    /\ ~HasArg(TagsKey)
    /\ Len(trace) = 3
    /\ trace[1].node = InputArgId /\ Did(1).exc = "ValidationError"
    /\ trace[2] = Called("reject_str", "data", UserCreateId, outcome.kwargs)
    /\ trace[3] = Called("reject_fields", "data", UserCreateId, outcome.kwargs)

\* C20: if the pre-hook, a value validator or a data validator that resolve
\* called raised ValidationError, whatever its message, the resolver is not
\* called and resolve ends with the 'magql argument validation' error
\* (unless an exception of another class left resolve, which it does as it
\* is).
C20_FailureStopsResolve ==
    (/\ Resolved
     /\ outcome.kind \in {"return", "GraphQLError"}
     /\ \E i \in 1..Len(trace) :
           /\ trace[i].role \in {"pre", "value", "data"}
           /\ Did(i).exc = "ValidationError") =>
        /\ "resolver" \notin Roles
        /\ outcome.kind = "GraphQLError"
        /\ outcome.message = "magql argument validation"

----------------------------------------------------------------------------
\* Failed and repeated to_graphql calls, as the claims speak of them

\* A step that is a direct _find_nodes call.
FindNodesCall == calls' = calls + 1 /\ last'.op = "_find_nodes"

\* The last call was a to_graphql that raised the undefined-type error.
Failed == last.op = "to_graphql" /\ last.raised = "KeyError"

\* The name has a definition in type_map.
DefinedNow(name) == TMHas(type_map, name) /\ TMGet(type_map, name) # 0

\* C14: _find_nodes does not raise on undefined names, it records them as
\* None; a to_graphql that raises the undefined-type error caches nothing;
\* the to_graphql call after it succeeds if every missing definition was
\* added in between, and if only some were added it raises the error with
\* only the names still missing.
C14_FailureNotCached ==
    [][/\ FindNodesCall =>
            /\ last'.raised = "none"
            /\ \A name \in Undefined(heap, type_map) :
                  TMHas(type_map', name) /\ TMGet(type_map', name) = 0
       /\ (ToGraphqlStep /\ last'.raised = "KeyError") => graphql_schema' = 0
       /\ (ToGraphqlStep /\ Failed) =>
            /\ ((\A name \in Range(last.names) : DefinedNow(name))
                    /\ Undefined(heap, type_map) = {}) =>
                  /\ last'.raised = "none"
                  /\ graphql_schema' # 0
            /\ ((\E name \in Range(last.names) : DefinedNow(name))
                    /\ Undefined(heap, type_map) # {}) =>
                  /\ last'.raised = "KeyError"
                  /\ Range(last'.names) = Undefined(heap, type_map)
      ]_vars

\* C15: when to_graphql raises the undefined-type error the schema's cache
\* stays unset and the call has executed no _make_graphql_node: no compiled
\* object was created and no node received one.
C15_NoPartialSchema ==
    [][(ToGraphqlStep /\ last'.raised = "KeyError") =>
        /\ graphql_schema' = 0
        /\ gql' = gql
        /\ last'.made = <<>>
        /\ \A n \in 1..Len(heap') :
              IF n <= Len(heap)
              THEN /\ heap'[n].graphql_node = heap[n].graphql_node
                   /\ heap'[n].n_start = heap[n].n_start
                   /\ heap'[n].n_make = heap[n].n_make
              ELSE heap'[n].graphql_node = 0 /\ heap'[n].n_start = 0
      ]_vars

\* The undefined-type error was raised for a schema whose Mutation has a
\* field and whose graph has defined types: none of them is compiled.
C15_Witness ==
    /\ last.op = "to_graphql" /\ last.raised = "KeyError"
    /\ heap[MutationId].fields # <<>>
    /\ InSeq(ObjRef(UserId), last.seen)
    /\ graphql_schema = 0
    /\ gql = InitGql
    /\ \A n \in 1..Len(heap) : n # IntId => heap[n].graphql_node = 0

\* The nodes the fields of the two roots lead to.
RootReach(h) == ReachFrom(h, {QueryId, MutationId}, {}) \ {QueryId, MutationId}

\* The magql nodes of the named types in the compiled schema's type set.
TypeSet(g, schema) ==
    {g[c].node : c \in {d \in GqlReach(g, schema) : g[d].kind \in NamedKinds}}

\* A step in which to_graphql compiled and returned a schema.
CompiledStep == ToGraphqlStep /\ graphql_schema = 0 /\ graphql_schema' # 0

\* The named types user code has given to the schema.
Registered(tm) == (Range(TMValues(tm)) \ {0}) \cap AddableTypes

\* C16: a named type given to the Schema or to add_type that no field of
\* Query or Mutation leads to is never compiled and is not in the compiled
\* schema's type set; that set holds only types the roots lead to.
C16_UnusedExcluded ==
    [][CompiledStep =>
        /\ \A t \in Registered(type_map') \ RootReach(heap') :
              /\ heap'[t].graphql_node = 0
              /\ t \notin TypeSet(gql', graphql_schema')
        /\ TypeSet(gql', graphql_schema') \subseteq
              RootReach(heap') \cup {QueryId, MutationId}
      ]_vars

\* C17: a root that has no field when the schema is compiled is not
\* compiled and the schema has no such root; a root that has a field is
\* compiled and is the schema's root.
C17_EmptyRootOmitted ==
    [][CompiledStep =>
        \A i \in 1..2 :
            LET root == <<QueryId, MutationId>>[i] IN
            IF heap[root].fields = <<>>
            THEN /\ gql'[graphql_schema'].of[i] = 0
                 /\ heap'[root].graphql_node = 0
                 /\ root \notin TypeSet(gql', graphql_schema')
            ELSE /\ gql'[graphql_schema'].of[i] # 0
                 /\ gql'[graphql_schema'].of[i] = heap'[root].graphql_node
                 /\ gql'[heap'[root].graphql_node].node = root
      ]_vars

\* A schema compiled with a Mutation that has a field and a Query that has
\* none.
C17_Witness ==
    /\ graphql_schema # 0
    /\ last.op = "to_graphql" /\ last.ran
    /\ gql[graphql_schema].of[1] = 0
    /\ gql[graphql_schema].of[2] # 0
    /\ heap[QueryId].graphql_node = 0
    /\ gql[gql[graphql_schema].of[2]].node = MutationId

----------------------------------------------------------------------------
\* Wrappers, as the claims speak of them

RECURSIVE Unwrapped(_, _)
\* The type left when every wrapper is taken off, layer by layer.
Unwrapped(h, ref) ==
    IF KindOf(h, ref) \in WrappingKinds THEN Unwrapped(h, h[ref.o].type) ELSE ref

RECURSIVE GqlMatches(_, _, _, _)
\* The compiled object c is wrappers (outermost first) around the compiled
\* form of the node d.
GqlMatches(g, c, wrappers, d) ==
    IF wrappers = <<>> THEN g[c].node = d /\ g[c].kind \notin WrappingKinds
    ELSE /\ g[c].kind = Head(wrappers)
         /\ GqlMatches(g, g[c].of[1], Tail(wrappers), d)

\* The step resolved, or compiled, the reference that reads as the wrappers
\* w around the type named name.
WrapsAs(name, w) ==
    LET d == TMGet(type_map, name) IN
    /\ (last'.op = "_apply_types" /\ heap[WrapId].type = StrRef(Written(name, w))) =>
          /\ last'.raised = "none"
          /\ Matches(heap', heap'[WrapId].type, w, d)
          /\ Unwrapped(heap', heap'[WrapId].type) = ObjRef(d)
    /\ (last'.op = "_to_graphql" /\ last.names = <<Written(name, w)>>) =>
          /\ last'.raised = "none"
          /\ heap'[WrapId].graphql_node # 0
          /\ GqlMatches(gql', gql'[heap'[WrapId].graphql_node].of[1], w, d)

\* C18: a reference written with markers resolves to wrapper objects nested
\* as the string reads from the outside in ("X!" NonNull(X), "[X]" List(X),
\* "[X!]!" NonNull(List(NonNull(X))), and so on for deeper nesting); taking
\* the wrappers off layer by layer gives the type named X; the compiled type
\* has the same wrappers in the same order.
C18_WrappersNested ==
    [][\A name \in {UserName, IntName}, w \in WrapperSeqs(MaxWrap) : WrapsAs(name, w)]_vars

\* "[User!]!" was resolved to NonNull(List(NonNull(User))) and compiled to
\* the same three wrappers around the compiled User.
C18_Witness ==
    /\ last.op = "_to_graphql"
    /\ last.names = << <<"[">> \o UserName \o <<"!", "]", "!">> >>
    /\ Matches(heap, heap[WrapId].type, <<"NonNull", "List", "NonNull">>, UserId)
    /\ heap[WrapId].graphql_node # 0
    /\ GqlMatches(gql, gql[heap[WrapId].graphql_node].of[1],
                  <<"NonNull", "List", "NonNull">>, UserId)

----------------------------------------------------------------------------
\* Input objects inside lists, and groups

\* The resolver was called.
ResolverCalled == \E i \in 1..Len(trace) : trace[i].role = "resolver"

\* Call number i of the resolve was the callable f of node n on value.
CalledAt(i, f, role, n, value) == trace[i] = Called(f, role, n, value)

\* Every validator of UserInput and of its field age was called on the
\* input object value before the resolver.
ObjectValidated(value) ==
    /\ \A k \in 1..Len(validators[UserInputId]) :
          \E i \in 1..Len(trace) :
              CalledAt(i, validators[UserInputId][k].f, "data", UserInputId, value)
    /\ \A k \in 1..Len(Plain(AgeId)) :
          \E i \in 1..Len(trace) :
              CalledAt(i, Plain(AgeId)[k].f, "value", AgeId, DictGet(value, AgeKey))

\* C21: when resolve gets to the resolver, every input object inside the
\* argument `inputs` (a list of UserInput) and the one of `input` had
\* UserInput's validation run on it, whether or not the argument has a
\* validator group.
C21_InputObjectsValidated ==
    (Resolved /\ ResolverCalled /\ \A i \in 1..Len(trace) : Did(i).exc # "RuntimeError") =>
        /\ HasArg(InputsKey) =>
              \A j \in 1..Len(Arg(InputsKey).l) : ObjectValidated(Arg(InputsKey).l[j])
        /\ HasArg(InputKey) => ObjectValidated(Arg(InputKey))

\* The nodes of the field whose declared type has no List wrapper.
Unlisted == {InputArgId, AgeId, NameId}

\* The validators lists with the groups of the nodes in Unlisted taken out.
Ungrouped ==
    [n \in DOMAIN validators |-> IF n \in Unlisted THEN Plain(n) ELSE validators[n]]

\* The resolve made the calls of r and ended as r.
EndedAs(r) == trace = r.trace /\ outcome = [r.outcome EXCEPT !.kwargs = outcome.kwargs]

\* C23: a validator group on a node whose declared type has no List wrapper
\* does nothing: the resolve makes the calls and ends the way it does
\* without the group (no validator of the group is called, no error comes
\* from it).
C23_GroupWithoutListNoOp ==
    Resolved =>
        EndedAs(Resolve([h |-> heap, v |-> Ungrouped], pre_resolve, resolve_fn,
                        UserCreateId, outcome.kwargs))

RECURSIVE Fails(_, _)
\* Some validator of vs, or of a group in vs on some item, raises
\* ValidationError on the value.
Fails(vs, value) ==
    \E i \in 1..Len(vs) :
        IF IsGroup(vs[i])
        THEN \E j \in 1..Len(value.l) : Fails(vs[i].group, value.l[j])
        ELSE Behaviour(vs[i].f, value).exc = "ValidationError"

\* The groups of node n that some item of the list value fails.
FailedGroups(n, value) ==
    {i \in 1..Len(validators[n]) :
        /\ IsGroup(validators[n][i])
        /\ \E j \in 1..Len(value.l) : Fails(validators[n][i].group, value.l[j])}

\* The entries of an error list that are lists: those of groups.
ListEntries(errors) == {k \in 1..Len(errors) : errors[k].t = "list"}

\* C22: the error list of a list argument holds one list entry for each
\* of its groups that at least one item failed, whatever the message of
\* the failure, and none for a group that every item passed.
C22_OneEntryPerFailedGroup ==
    (Resolved /\ HookPassed) =>
        \A n \in ListNodes :
            HasArg(heap[n].name) =>
                Cardinality(ListEntries(ErrorsOf(heap[n].name))) =
                    Cardinality(FailedGroups(n, Arg(heap[n].name)))

----------------------------------------------------------------------------
\* Graph resolution, call after call

\* The names type_map holds with the value None.
NoneNames(tm) == {tm[i].k : i \in {j \in 1..Len(tm) : tm[j].v = 0}}

\* C24: after _find_nodes the names whose value in type_map is None are
\* exactly the bare names that a reachable node references by string and
\* that no named type of type_map or of the reachable graph carries; a name
\* that has a definition is not None.
C24_NoneExactlyUndefined ==
    [][FindNodesStep => NoneNames(type_map') = Undefined(heap, type_map)]_vars

\* C25: after every _find_nodes call, the first and any later one,
\* type_map holds neither the name of the Query root nor the name of the
\* Mutation root.
C25_RootsNotInTypeMap ==
    [][FindNodesStep =>
        /\ ~TMHas(type_map', heap'[QueryId].name)
        /\ ~TMHas(type_map', heap'[MutationId].name)]_vars

\* The second _find_nodes call on a graph in which a field is typed with
\* the string "Query": the string was visited, the roots are not in
\* type_map.
C25_Witness ==
    /\ calls = 2
    /\ last.op = "_find_nodes"
    /\ InSeq(StrRef(QueryName), last.seen)
    /\ InSeq(ObjRef(MutationId), last.seen)
    /\ ~TMHas(type_map, QueryName) /\ ~TMHas(type_map, MutationName)

\* The call r, made now, would change nothing.
ChangesNothing(r) == r.raised = "none" /\ r.tm = type_map' /\ r.heap = heap'

\* C26: a _find_nodes call made right after a _find_nodes call leaves
\* type_map and every node (its type references included) as the first
\* call left them, also with names that are still undefined.
C26_Idempotent ==
    [][FindNodesStep => ChangesNothing(FindNodes(heap', type_map'))]_vars

\* Two calls with no edit at all: the second left Node undefined and the
\* type of User.friend the three wrappers the first call created.
C26_Witness ==
    /\ calls = 2 /\ edits = 0
    /\ last.op = "_find_nodes"
    /\ TMHas(type_map, NodeName) /\ TMGet(type_map, NodeName) = 0
    /\ heap[UserId].interfaces = <<StrRef(NodeName)>>
    /\ Matches(heap, heap[FriendId].type, <<"NonNull", "List", "NonNull">>, UserId)
    /\ Len(heap) = Len(InitHeap) + 3

\* The sequence holds each element of the set once and nothing else.
EachOnce(seq, set) ==
    /\ Range(seq) = set
    /\ \A i, j \in 1..Len(seq) : seq[i] = seq[j] => i = j

\* C27: a call that runs _find_nodes comes to its end, on cyclic graphs
\* too, and in it _find_nodes was called once and _apply_types once on
\* each node of the reachable graph, and on nothing else.
C27_EachNodeOnce ==
    [][(calls' = calls + 1 /\ last'.ran) =>
        /\ last'.raised # "diverged"
        /\ EachOnce(last'.expanded, Reach(heap, type_map))
        /\ EachOnce(last'.applied, Reach(heap, type_map))]_vars

\* A second call on the cycle User.friend: [User!]! -> User, with User
\* also the type of Query.user: User was expanded in it.
C27_Witness ==
    /\ calls = 2
    /\ last.op = "_find_nodes"
    /\ Matches(heap, heap[FriendId].type, <<"NonNull", "List", "NonNull">>, UserId)
    /\ heap[UserFieldId].type = ObjRef(UserId)
    /\ heap[QueryId].fields = <<UserFieldId>>
    /\ {UserId, FriendId, UserFieldId, heap[FriendId].type.o} \subseteq Range(last.expanded)

----------------------------------------------------------------------------
\* The two loops that strip markers

\* The call visits the reference s of Query.user: the name the loop of
\* _find_nodes ends with is the name the loop of _to_type ends with, both
\* raise or neither does; that name is then in type_map, and what the
\* wrappers of the field's type hold is what type_map has for it (the name
\* itself when that is None).
SameName(s) ==
    /\ FindStrip(s).raised = Strip(s).raised
    /\ FindStrip(s).bare = Strip(s).bare
    /\ last'.raised = FindStrip(s).raised
    /\ FindStrip(s).raised = "none" =>
          /\ TMHas(type_map', FindStrip(s).bare)
          /\ Unwrapped(heap', heap'[UserFieldId].type) =
                Lookup(type_map', Strip(s).bare, TMGet(type_map', Strip(s).bare))

\* C28: for every string reference, the bare name _find_nodes gets by
\* stripping markers and records in type_map is the name _to_type gets by
\* its own stripping and looks up.
C28_SameBareName ==
    [][(FindNodesCall /\ IsStr(heap[UserFieldId].type)) =>
          SameName(heap[UserFieldId].type.s)]_vars

\* "[User!]" was visited and resolved to List(NonNull(User)); in another
\* run "[User" was.
C28_Witness ==
    /\ last.op = "_find_nodes"
    /\ InSeq(StrRef(<<"[">> \o UserName \o <<"!", "]">>), last.seen)
    /\ Matches(heap, heap[UserFieldId].type, <<"List", "NonNull">>, UserId)

RECURSIVE StripsMarkers(_)
\* Every iteration of the loop of _to_type on s, and on what it leaves,
\* takes a trailing "!" off, or else a leading "[" together with a
\* trailing "]", or else stops; nothing else.
StripsMarkers(s) ==
    CASE StripStep(s).mark = "!" ->
           s = StripStep(s).s \o <<"!">> /\ StripsMarkers(StripStep(s).s)
      [] StripStep(s).mark = "[" ->
           s = <<"[">> \o StripStep(s).s \o <<"]">> /\ StripsMarkers(StripStep(s).s)
      [] StripStep(s).mark = "break" -> s[Len(s)] # "!" /\ s[1] # "["
      [] OTHER -> FALSE

\* C29: each iteration of marker stripping removes a trailing "!" if there
\* is one, otherwise one pair of a leading "[" and a trailing "]"; no other
\* character is removed; stripping stops at the bare name.
C29_OnlyMarkersRemoved ==
    [][(FindNodesCall /\ IsStr(heap[UserFieldId].type)) =>
          StripsMarkers(heap[UserFieldId].type.s)]_vars

----------------------------------------------------------------------------
\* Overlapping to_graphql calls

\* Both calls returned, and one began while the other was in progress.
BothReturned ==
    /\ Len(threads) = MaxThreads
    /\ \A t \in 1..Len(threads) : threads[t].pc = "done" /\ threads[t].raised = "none"
    /\ \E t \in 1..Len(threads) : threads[t].overlapped

\* Both calls returned, and neither began while the other was in progress.
BothReturnedInTurn ==
    /\ Len(threads) = MaxThreads
    /\ \A t \in 1..Len(threads) :
          threads[t].pc = "done" /\ threads[t].raised = "none" /\ ~threads[t].overlapped

\* C30: two to_graphql calls on a schema not compiled yet, the second of
\* which begins after the first returned, return the same schema object,
\* and no node's _make_graphql_node is executed more than once.
C30_InTurnSafe ==
    BothReturnedInTurn =>
        /\ \A t, u \in 1..Len(threads) : threads[t].ret = threads[u].ret
        /\ \A n \in 1..Len(heap) : heap[n].n_start <= 1 /\ heap[n].n_make <= 1

C30_Witness ==
    /\ BothReturnedInTurn
    /\ threads[1].ret # 0
    /\ heap[MutationId].n_make = 1

\* C30 as stated: two to_graphql calls on a schema not compiled yet that
\* overlap in time return the same schema object, and no node's
\* _make_graphql_node is executed more than once.
C30_OverlapSafe ==
    BothReturned =>
        /\ \A t, u \in 1..Len(threads) : threads[t].ret = threads[u].ret
        /\ \A n \in 1..Len(heap) : heap[n].n_start <= 1 /\ heap[n].n_make <= 1

====
